---------------------------- MODULE Spec2Model ----------------------------
(***************************************************************************)
(* recur-scan: feature scorers for recurring-transaction detection.        *)
(*                                                                         *)
(* The library is a set of functions over (transaction, all_transactions)  *)
(* plus two pieces of process-wide state: the wall clock that              *)
(* time_since_last_transaction_same_merchant_feature reads, and the        *)
(* lru_caches of features._parse_date and of utils.parse_date.             *)
(*                                                                         *)
(* Representation                                                          *)
(*   str       a sequence of one-character strings (so that split, strip,  *)
(*             lower, replace and the ordering of str are computed)        *)
(*   float     an exact rational <<n, d>>, d > 0, in lowest terms; the     *)
(*             square root of np.std and the logarithms of scipy's entropy *)
(*             are rounded down to a fixed grid (Sqrt, LnC)                *)
(*   amount    a float holding a number of cents / 100                     *)
(*   datetime  <<year, month, day>>; None is <<>>                           *)
(*   raise     an outcome record [exc |-> <exception name>, v |-> ...]     *)
(***************************************************************************)
EXTENDS Integers, Sequences, FiniteSets, TLC

VARIABLES
    transaction,        \* the subject transaction of the caller
    all_transactions,   \* the caller's list of transactions
    now,                \* datetime.now(), as a day number
    cache,              \* lru_cache of features._parse_date, least recent first
    parse_date_cache,   \* lru_cache of utils.parse_date, least recent first
    call,               \* the last call made: [fn |-> name, ...arguments]
    result,             \* what that call returned (or raised)
    prev_result         \* what the previous get_features call returned

vars == <<transaction, all_transactions, now, cache, parse_date_cache, call, result, prev_result>>

-----------------------------------------------------------------------------
(* Integers                                                                *)

\* the value of a call whose arguments are evaluated before it, as Python
\* evaluates them: S is the singleton {f(v) : v \in {argument}}
The(S) == CHOOSE x \in S : TRUE

Abs(x) == IF x < 0 THEN -x ELSE x

Min(a, b) == IF a <= b THEN a ELSE b

Max(a, b) == IF a >= b THEN a ELSE b

RECURSIVE Gcd(_, _)
Gcd(a, b) == IF b = 0 THEN a ELSE Gcd(b, a % b)

\* floor(sqrt(x)) for 0 <= x < 2^31, one base-16 digit at a time: the digit at
\* unit is the number of i in 1..15 for which (r + i * unit)^2 <= x
ISqrtDigit(x, r, unit) ==
    r + unit * Cardinality({i \in 1..15 : r + i * unit <= 46340 /\ (r + i * unit) * (r + i * unit) <= x})

ISqrt(x) == ISqrtDigit(x, ISqrtDigit(x, ISqrtDigit(x, ISqrtDigit(x, 0, 4096), 256), 16), 1)

\* Python's int(x / y) for y > 0: truncation toward zero
TruncDiv(x, y) == IF x >= 0 THEN x \div y ELSE -((-x) \div y)

-----------------------------------------------------------------------------
(* Floats, as exact rationals <<n, d>>                                     *)

Q(n, d) ==
    LET s == IF d < 0 THEN -1 ELSE 1
        g == Gcd(Abs(n), Abs(d))
    IN  <<(s * n) \div g, (s * d) \div g>>

QInt(n) == <<n, 1>>

QZero == <<0, 1>>

QOne == <<1, 1>>

QNeg(a) == <<-a[1], a[2]>>

QAdd(a, b) ==
    IF a[2] = b[2] THEN Q(a[1] + b[1], a[2])
    ELSE LET g == Gcd(a[2], b[2])
         IN  Q(a[1] * (b[2] \div g) + b[1] * (a[2] \div g), (a[2] \div g) * b[2])

QSub(a, b) == QAdd(a, QNeg(b))

QMul(a, b) ==
    IF a[1] = 0 \/ b[1] = 0 THEN QZero
    ELSE LET g1 == Gcd(Abs(a[1]), b[2])
             g2 == Gcd(Abs(b[1]), a[2])
         IN  Q((a[1] \div g1) * (b[1] \div g2), (a[2] \div g2) * (b[2] \div g1))

\* a / b for b # 0 (the callers test b = 0, where Python raises ZeroDivisionError)
QDiv(a, b) == QMul(a, Q(b[2], b[1]))

QLt(a, b) == a[1] * b[2] < b[1] * a[2]

QLe(a, b) == a[1] * b[2] <= b[1] * a[2]

QMin(a, b) == IF QLe(a, b) THEN a ELSE b

QMax(a, b) == IF QLe(b, a) THEN a ELSE b

QAbs(a) == <<Abs(a[1]), a[2]>>

IsZero(a) == a[1] = 0

\* Python's a / b on floats: ZeroDivisionError when b == 0
truediv(a, b) ==
    IF IsZero(b) THEN [exc |-> "ZeroDivisionError", v |-> QZero]
    ELSE [exc |-> "none", v |-> QDiv(a, b)]

RECURSIVE QSum(_)
QSum(s) == IF s = <<>> THEN QZero ELSE QAdd(s[1], QSum(Tail(s)))

\* the grid 1/k on which a square root is kept, k as large as 32 bits allow
SqrtGrid(p) ==
    IF p <= 2000 THEN 1000 ELSE IF p <= 200000 THEN 100 ELSE IF p <= 20000000 THEN 10 ELSE 1

\* sqrt(a) for a >= 0, rounded down to the grid; exact when a is a square
Sqrt(a) ==
    LET p == a[1]
        q == a[2]
        r == ISqrt(q)
        k == SqrtGrid(p)
    IN  IF r * r = q THEN Q(ISqrt(p * k * k), r * k)
        ELSE Q(ISqrt((p * k * k) \div q), k)

-----------------------------------------------------------------------------
(* str                                                                     *)

\* the characters in use, in code-point order
CharsInOrder ==
    <<"\t", " ", "&", "-", "/",
      "0", "1", "2", "3", "4", "5", "6", "7", "8", "9",
      "A", "B", "C", "D", "E", "F", "G", "H", "I", "J", "K", "L", "M",
      "N", "O", "P", "Q", "R", "S", "T", "U", "V", "W", "X", "Y", "Z",
      "_",
      "a", "b", "c", "d", "e", "f", "g", "h", "i", "j", "k", "l", "m",
      "n", "o", "p", "q", "r", "s", "t", "u", "v", "w", "x", "y", "z">>

\* the place of every character in CharsInOrder
OrdTable ==
    [c \in {CharsInOrder[i] : i \in 1..Len(CharsInOrder)} |->
        CHOOSE i \in 1..Len(CharsInOrder) : CharsInOrder[i] = c]

Ord(c) == OrdTable[c]

IsDigit(c) == Ord(c) >= Ord("0") /\ Ord(c) <= Ord("9")

IsUpper(c) == Ord(c) >= Ord("A") /\ Ord(c) <= Ord("Z")

IsSpace(c) == c \in {"\t", " "}

DigitVal(c) == Ord(c) - Ord("0")

\* str < str: lexicographic over code points
RECURSIVE StrLt(_, _)
StrLt(a, b) ==
    IF b = <<>> THEN FALSE
    ELSE IF a = <<>> THEN TRUE
    ELSE IF a[1] # b[1] THEN Ord(a[1]) < Ord(b[1])
    ELSE StrLt(Tail(a), Tail(b))

\* str.lower()
lower(s) == [i \in 1..Len(s) |-> IF IsUpper(s[i]) THEN CharsInOrder[Ord(s[i]) + 27] ELSE s[i]]

\* str.strip()
RECURSIVE lstrip(_)
lstrip(s) == IF s # <<>> /\ IsSpace(s[1]) THEN lstrip(Tail(s)) ELSE s

RECURSIVE rstrip(_)
rstrip(s) == IF s # <<>> /\ IsSpace(s[Len(s)]) THEN rstrip(SubSeq(s, 1, Len(s) - 1)) ELSE s

strip(s) == rstrip(lstrip(s))

\* str.replace(c, "") for a one-character c
RECURSIVE remove(_, _)
remove(s, c) ==
    IF s = <<>> THEN <<>>
    ELSE IF s[1] = c THEN remove(Tail(s), c)
    ELSE <<s[1]>> \o remove(Tail(s), c)

\* str.split(sep) for a one-character sep: the fields, in order
RECURSIVE split(_, _)
split(s, sep) ==
    IF \A i \in 1..Len(s) : s[i] # sep THEN <<s>>
    ELSE LET k == CHOOSE i \in 1..Len(s) : s[i] = sep /\ \A j \in 1..(i - 1) : s[j] # sep
         IN  <<SubSeq(s, 1, k - 1)>> \o split(SubSeq(s, k + 1, Len(s)), sep)

AllDigits(s) == s # <<>> /\ \A i \in 1..Len(s) : IsDigit(s[i])

\* the value of a field of decimal digits
RECURSIVE DigitsVal(_)
DigitsVal(s) == IF s = <<>> THEN 0 ELSE DigitsVal(SubSeq(s, 1, Len(s) - 1)) * 10 + DigitVal(s[Len(s)])

\* int(s): surrounding whitespace is dropped and single underscores between
\* digits are allowed; ValueError for any other text
int(s) ==
    LET t == strip(s)
        ok == /\ t # <<>>
              /\ IsDigit(t[1]) /\ IsDigit(t[Len(t)])
              /\ \A i \in 1..Len(t) : IsDigit(t[i]) \/ t[i] = "_"
              /\ \A i \in 1..(Len(t) - 1) : ~(t[i] = "_" /\ t[i + 1] = "_")
    IN  IF ok THEN [exc |-> "none", v |-> DigitsVal(remove(t, "_"))]
        ELSE [exc |-> "ValueError", v |-> 0]

-----------------------------------------------------------------------------
(* datetime                                                                *)

IsLeap(y) == y % 4 = 0 /\ (y % 100 # 0 \/ y % 400 = 0)

DaysInMonth(y, m) ==
    IF m = 2 THEN (IF IsLeap(y) THEN 29 ELSE 28)
    ELSE IF m \in {4, 6, 9, 11} THEN 30 ELSE 31

RECURSIVE DaysBeforeMonth(_, _)
DaysBeforeMonth(y, m) == IF m <= 1 THEN 0 ELSE DaysBeforeMonth(y, m - 1) + DaysInMonth(y, m - 1)

DaysBeforeYear(y) == (y - 1) * 365 + (y - 1) \div 4 - (y - 1) \div 100 + (y - 1) \div 400

\* datetime.toordinal(): a datetime is <<year, month, day>>, None is <<>>
Ordinal(dt) == DaysBeforeYear(dt[1]) + DaysBeforeMonth(dt[1], dt[2]) + dt[3]

\* (a - b).days
DaysBetween(a, b) == Ordinal(a) - Ordinal(b)

\* datetime.weekday(): Monday is 0
weekday(dt) == (Ordinal(dt) + 6) % 7

None == <<>>

\* datetime.strptime(s, "%Y<sep>%m<sep>%d"), f the fields between the
\* separators: %Y is four digits, %m and %d one or two digits in 1..12 and
\* 1..31, nothing may follow, and the day must exist
strptime_fields(f) ==
    LET ok ==
            /\ Len(f) = 3
            /\ Len(f[1]) = 4 /\ AllDigits(f[1]) /\ DigitsVal(f[1]) >= 1
            /\ Len(f[2]) \in {1, 2} /\ AllDigits(f[2]) /\ DigitsVal(f[2]) \in 1..12
            /\ Len(f[3]) \in {1, 2} /\ AllDigits(f[3])
            /\ DigitsVal(f[3]) \in 1..DaysInMonth(DigitsVal(f[1]), DigitsVal(f[2]))
    IN  IF ok THEN [exc |-> "none", v |-> <<DigitsVal(f[1]), DigitsVal(f[2]), DigitsVal(f[3])>>]
        ELSE [exc |-> "ValueError", v |-> None]

strptime(s, sep) == The({strptime_fields(f) : f \in {split(s, sep)}})

\* features._parse_date, the function under @lru_cache
_parse_date(date_string) ==
    The({IF r.exc = "ValueError" THEN None ELSE r.v : r \in {strptime(date_string, "-")}})

\* utils.parse_date, the function under @lru_cache: it raises on a malformed string
parse_date(date_str) == strptime(date_str, "-")

\* features._get_day / utils.get_day
_get_day(date) ==
    LET f == split(date, "-")
    IN  IF Len(f) < 3 THEN [exc |-> "IndexError", v |-> 0] ELSE int(f[3])

-----------------------------------------------------------------------------
(* Transactions and the shared helpers of features.py                      *)

\* a Transaction: user_id and name and date are str, amount is a float
Tx(u, nm, a, d) == [user_id |-> u, name |-> nm, amount |-> a, date |-> d]

\* an amount of c cents
Cents(c) == Q(c, 100)

RECURSIVE SelectTx_prepend(_, _, _)
\* the bucket of (u, nm) filled at its front instead of by append
SelectTx_prepend(txs, u, nm) ==
    IF txs = <<>> THEN <<>>
    ELSE IF txs[1].user_id = u /\ txs[1].name = nm THEN SelectTx_prepend(Tail(txs), u, nm) \o <<txs[1]>>
    ELSE SelectTx_prepend(Tail(txs), u, nm)

RECURSIVE SelectTx(_, _, _)
\* the bucket of (u, nm) after the loop over txs: append keeps the input order
SelectTx(txs, u, nm) ==
    IF txs = <<>> THEN <<>>
    ELSE IF txs[1].user_id = u /\ txs[1].name = nm THEN <<txs[1]>> \o SelectTx(Tail(txs), u, nm)
    ELSE SelectTx(Tail(txs), u, nm)

\* the nested dict user_id -> name -> list, each list in input order
_aggregate_transactions(transactions) ==
    LET users == {transactions[i].user_id : i \in 1..Len(transactions)}
        names(u) == {transactions[i].name : i \in {j \in 1..Len(transactions) : transactions[j].user_id = u}}
    IN  [u \in users |-> [nm \in names(u) |-> SelectTx(transactions, u, nm)]]

\* groups.get(user_id, {}).get(merchant_name, [])
GroupGet(groups, u, nm) ==
    IF u \in DOMAIN groups /\ nm \in DOMAIN groups[u] THEN groups[u][nm] ELSE <<>>

_calculate_intervals(dates) ==
    IF Len(dates) < 2 THEN <<>>
    ELSE [i \in 1..(Len(dates) - 1) |-> DaysBetween(dates[i + 1], dates[i])]

\* np.mean
np_mean(values) == QDiv(QSum(values), QInt(Len(values)))

\* np.var with ddof delta degrees of freedom, about the mean already computed
np_var(values, mean, ddof) ==
    QDiv(QSum([i \in 1..Len(values) |-> QMul(QSub(values[i], mean), QSub(values[i], mean))]),
         QInt(Len(values) - ddof))

\* np.std with the sample divisor n - 1 (ddof = 1) instead of n
np_std_sample(values) ==
    IF Len(values) < 2 THEN QZero
    ELSE The({Sqrt(var) : var \in {np_var(values, mean, 1) : mean \in {np_mean(values)}}})

\* np.std: the population standard deviation
np_std(values) ==
    The({Sqrt(var) : var \in {np_var(values, mean, 0) : mean \in {np_mean(values)}}})

_calculate_statistics(values) ==
    IF Len(values) = 0 THEN [mean |-> QZero, std |-> QZero]
    ELSE [mean |-> np_mean(values), std |-> np_std(values)]

\* [float(i) for i in intervals]
Floats(ints) == [i \in 1..Len(ints) |-> QInt(ints[i])]

\* the dates of merchant_trans that parse, in list order
RECURSIVE ParsedDates(_)
ParsedDates(merchant_trans) ==
    IF merchant_trans = <<>> THEN <<>>
    ELSE LET date == _parse_date(merchant_trans[1].date)
         IN  IF date # None THEN <<date>> \o ParsedDates(Tail(merchant_trans))
             ELSE ParsedDates(Tail(merchant_trans))

-----------------------------------------------------------------------------
(* days-apart counting: features.py and features_original.py              *)

\* the loop of features.py without its skip test days_diff < n_days_apart - n_days_off
RECURSIVE days_apart_loop_no_skip(_, _, _, _, _)
days_apart_loop_no_skip(txs, transaction_date, n_days_apart, n_days_off, n_txs) ==
    IF txs = <<>> THEN [exc |-> "none", v |-> n_txs]
    ELSE LET t_date == _parse_date(txs[1].date)
         IN  IF t_date = None
             THEN days_apart_loop_no_skip(Tail(txs), transaction_date, n_days_apart, n_days_off, n_txs)
             ELSE LET days_diff == Abs(DaysBetween(t_date, transaction_date))
                  IN  IF n_days_apart = 0 THEN [exc |-> "ZeroDivisionError", v |-> 0]
                      ELSE LET remainder == days_diff % n_days_apart
                               hit == remainder <= n_days_off \/ remainder >= n_days_apart - n_days_off
                           IN  days_apart_loop_no_skip(Tail(txs), transaction_date, n_days_apart,
                                                       n_days_off, IF hit THEN n_txs + 1 ELSE n_txs)

\* the loop of features.py with the skip test written <= instead of <
RECURSIVE days_apart_loop_skip_le(_, _, _, _, _)
days_apart_loop_skip_le(txs, transaction_date, n_days_apart, n_days_off, n_txs) ==
    IF txs = <<>> THEN [exc |-> "none", v |-> n_txs]
    ELSE LET t_date == _parse_date(txs[1].date)
         IN  IF t_date = None
             THEN days_apart_loop_skip_le(Tail(txs), transaction_date, n_days_apart, n_days_off, n_txs)
             ELSE LET days_diff == Abs(DaysBetween(t_date, transaction_date))
                  IN  IF days_diff <= n_days_apart - n_days_off
                      THEN days_apart_loop_skip_le(Tail(txs), transaction_date, n_days_apart,
                                                   n_days_off, n_txs)
                      ELSE IF n_days_apart = 0 THEN [exc |-> "ZeroDivisionError", v |-> 0]
                      ELSE LET remainder == days_diff % n_days_apart
                               hit == remainder <= n_days_off \/ remainder >= n_days_apart - n_days_off
                           IN  days_apart_loop_skip_le(Tail(txs), transaction_date, n_days_apart,
                                                       n_days_off, IF hit THEN n_txs + 1 ELSE n_txs)

\* features.py, the loop of lines 533-547 from the transactions txs on, n_txs so far
RECURSIVE days_apart_loop(_, _, _, _, _)
days_apart_loop(txs, transaction_date, n_days_apart, n_days_off, n_txs) ==
    IF txs = <<>> THEN [exc |-> "none", v |-> n_txs]
    ELSE LET t_date == _parse_date(txs[1].date)
         IN  IF t_date = None
             THEN days_apart_loop(Tail(txs), transaction_date, n_days_apart, n_days_off, n_txs)
             ELSE LET days_diff == Abs(DaysBetween(t_date, transaction_date))
                  IN  IF days_diff < n_days_apart - n_days_off
                      THEN days_apart_loop(Tail(txs), transaction_date, n_days_apart, n_days_off, n_txs)
                      ELSE IF n_days_apart = 0 THEN [exc |-> "ZeroDivisionError", v |-> 0]
                      ELSE LET remainder == days_diff % n_days_apart
                               hit == remainder <= n_days_off \/ remainder >= n_days_apart - n_days_off
                           IN  days_apart_loop(Tail(txs), transaction_date, n_days_apart, n_days_off,
                                               IF hit THEN n_txs + 1 ELSE n_txs)

get_n_transactions_days_apart(t, txs, n_days_apart, n_days_off) ==
    LET transaction_date == _parse_date(t.date)
    IN  IF transaction_date = None THEN [exc |-> "none", v |-> 0]
        ELSE days_apart_loop(txs, transaction_date, n_days_apart, n_days_off, 0)

get_pct_transactions_days_apart(t, txs, n_days_apart, n_days_off) ==
    LET n == get_n_transactions_days_apart(t, txs, n_days_apart, n_days_off)
    IN  IF n.exc # "none" THEN [exc |-> n.exc, v |-> QZero]
        ELSE IF Len(txs) = 0 THEN [exc |-> "ZeroDivisionError", v |-> QZero]
        ELSE [exc |-> "none", v |-> Q(n.v, Len(txs))]

\* features_original.py, the loop of lines 165-177: parse_date raises on a bad date
RECURSIVE original_days_apart_loop(_, _, _, _, _)
original_days_apart_loop(txs, transaction_date, n_days_apart, n_days_off, n_txs) ==
    IF txs = <<>> THEN [exc |-> "none", v |-> n_txs]
    ELSE LET t_date == parse_date(txs[1].date)
         IN  IF t_date.exc # "none" THEN [exc |-> t_date.exc, v |-> 0]
             ELSE LET days_diff == Abs(DaysBetween(t_date.v, transaction_date))
                  IN  IF days_diff < n_days_apart - n_days_off
                      THEN original_days_apart_loop(Tail(txs), transaction_date, n_days_apart,
                                                    n_days_off, n_txs)
                      ELSE IF n_days_apart = 0 THEN [exc |-> "ZeroDivisionError", v |-> 0]
                      ELSE LET remainder == days_diff % n_days_apart
                               hit == remainder <= n_days_off \/ remainder >= n_days_apart - n_days_off
                           IN  original_days_apart_loop(Tail(txs), transaction_date, n_days_apart,
                                                        n_days_off, IF hit THEN n_txs + 1 ELSE n_txs)

original_get_n_transactions_days_apart(t, txs, n_days_apart, n_days_off) ==
    LET transaction_date == parse_date(t.date)
    IN  IF transaction_date.exc # "none" THEN [exc |-> transaction_date.exc, v |-> 0]
        ELSE original_days_apart_loop(txs, transaction_date.v, n_days_apart, n_days_off, 0)

original_get_pct_transactions_days_apart(t, txs, n_days_apart, n_days_off) ==
    LET n == original_get_n_transactions_days_apart(t, txs, n_days_apart, n_days_off)
    IN  IF n.exc # "none" THEN [exc |-> n.exc, v |-> QZero]
        ELSE IF Len(txs) = 0 THEN [exc |-> "ZeroDivisionError", v |-> QZero]
        ELSE [exc |-> "none", v |-> Q(n.v, Len(txs))]

-----------------------------------------------------------------------------
(* The callers' inputs                                                     *)

MaxTx == 2      \* the longest all_transactions list
MaxTol == 1     \* the largest n_days_off

NoCall == [fn |-> "none"]

NoResult == [exc |-> "none", v |-> 0]

\* the lists over S of at most n elements
BSeq(S, n) == UNION {[1..k -> S] : k \in 0..n}

TwoDigits(n) == <<CharsInOrder[Ord("0") + (n \div 10)], CharsInOrder[Ord("0") + (n % 10)]>>

\* the canonical YYYY-MM-DD text of a date of the years 1000..9999
isoformat(y, m, d) ==
    TwoDigits(y \div 100) \o TwoDigits(y % 100) \o <<"-">> \o TwoDigits(m) \o <<"-">> \o TwoDigits(d)

InvalidDate == <<"i", "n", "v", "a", "l", "i", "d", "-", "d", "a", "t", "e">>

Name1 == <<"n", "a", "m", "e", "1">>

\* the dates of test_get_n_transactions_days_apart, and a malformed one
DaysApartDates ==
    {isoformat(2024, 1, 1), isoformat(2024, 1, 2), isoformat(2024, 1, 15),
     isoformat(2024, 1, 29), InvalidDate}

DaysApartTxs == {Tx("user1", Name1, Cents(299), d) : d \in DaysApartDates}

\* the target gaps: those of get_features (7, 14) and two short ones
Gaps == {1, 2, 7, 14}

Tols == 0..MaxTol

InitDaysApart ==
    /\ transaction \in DaysApartTxs
    /\ all_transactions \in BSeq(DaysApartTxs, MaxTx)
    /\ now = 0
    /\ cache = <<>>
    /\ parse_date_cache = <<>>
    /\ call = NoCall
    /\ result = NoResult
    /\ prev_result = NoResult

DaysApartCall(fn, gap, tol) == [fn |-> fn, n_days_apart |-> gap, n_days_off |-> tol]

CallGetN ==
    \E gap \in Gaps, tol \in Tols :
        /\ call = NoCall
        /\ call' = DaysApartCall("features.get_n_transactions_days_apart", gap, tol)
        /\ result' = get_n_transactions_days_apart(transaction, all_transactions, gap, tol)
        /\ UNCHANGED <<transaction, all_transactions, now, cache, parse_date_cache, prev_result>>

CallGetPct ==
    \E gap \in Gaps, tol \in Tols :
        /\ call = NoCall
        /\ call' = DaysApartCall("features.get_pct_transactions_days_apart", gap, tol)
        /\ result' = get_pct_transactions_days_apart(transaction, all_transactions, gap, tol)
        /\ UNCHANGED <<transaction, all_transactions, now, cache, parse_date_cache, prev_result>>

CallOriginalGetN ==
    \E gap \in Gaps, tol \in Tols :
        /\ call = NoCall
        /\ call' = DaysApartCall("features_original.get_n_transactions_days_apart", gap, tol)
        /\ result' = original_get_n_transactions_days_apart(transaction, all_transactions, gap, tol)
        /\ UNCHANGED <<transaction, all_transactions, now, cache, parse_date_cache, prev_result>>

CallOriginalGetPct ==
    \E gap \in Gaps, tol \in Tols :
        /\ call = NoCall
        /\ call' = DaysApartCall("features_original.get_pct_transactions_days_apart", gap, tol)
        /\ result' = original_get_pct_transactions_days_apart(transaction, all_transactions, gap, tol)
        /\ UNCHANGED <<transaction, all_transactions, now, cache, parse_date_cache, prev_result>>

NextDaysApart == CallGetN \/ CallGetPct \/ CallOriginalGetN \/ CallOriginalGetPct

\* one of the four functions is applied to the inputs drawn by InitDaysApart
SpecDaysApart == InitDaysApart /\ [][NextDaysApart]_vars

IsGetPct ==
    call.fn \in {"features.get_pct_transactions_days_apart",
                 "features_original.get_pct_transactions_days_apart"}

IsGetN ==
    call.fn \in {"features.get_n_transactions_days_apart",
                 "features_original.get_n_transactions_days_apart"}

AllDatesParse ==
    /\ _parse_date(transaction.date) # None
    /\ \A i \in 1..Len(all_transactions) : _parse_date(all_transactions[i].date) # None

\* the absolute day distance of all_transactions[i] from the subject transaction
Distance(i) == Abs(DaysBetween(_parse_date(all_transactions[i].date), _parse_date(transaction.date)))

NearMultiple(d, gap, tol) == d % gap <= tol \/ d % gap >= gap - tol

\* C2: get_pct_transactions_days_apart returns 0.0, and raises no division
\* error, when all_transactions is empty, for every target gap and tolerance.
C2_PctOfEmptyIsZero ==
    (IsGetPct /\ all_transactions = <<>>) => (result.exc = "none" /\ result.v = QZero)

\* C3: get_n_transactions_days_apart returns exactly the number of transactions
\* whose absolute day distance d from the subject satisfies
\* (d mod gap) <= tol or (d mod gap) >= gap - tol.
C3_CountsEveryNearMultiple ==
    (IsGetN /\ AllDatesParse) =>
        /\ result.exc = "none"
        /\ result.v = Cardinality({i \in 1..Len(all_transactions) :
                                      NearMultiple(Distance(i), call.n_days_apart, call.n_days_off)})

\* C3 as amended: when every date parses, the count is that of the transactions
\* with d >= gap - tol whose d is near a multiple of gap; the subject itself
\* and any transaction closer than gap - tol days are left out.
C3_CountsNearMultiplesFromGapMinusTol ==
    (IsGetN /\ AllDatesParse) =>
        /\ result.exc = "none"
        /\ result.v = Cardinality({i \in 1..Len(all_transactions) :
                          /\ Distance(i) >= call.n_days_apart - call.n_days_off
                          /\ NearMultiple(Distance(i), call.n_days_apart, call.n_days_off)})

\* a count that keeps a transaction near a multiple and leaves out a closer one
C3_Witness ==
    /\ IsGetN /\ AllDatesParse
    /\ result.exc = "none" /\ result.v >= 1 /\ result.v < Len(all_transactions)
    /\ \E i \in 1..Len(all_transactions) :
          /\ Distance(i) < call.n_days_apart - call.n_days_off
          /\ NearMultiple(Distance(i), call.n_days_apart, call.n_days_off)

\* the transactions whose date parses, at least gap - tol days from a subject
\* whose date parses
FarEnough(gap, tol) ==
    {i \in 1..Len(all_transactions) :
        /\ _parse_date(transaction.date) # None
        /\ _parse_date(all_transactions[i].date) # None
        /\ Distance(i) >= gap - tol}

\* C24: for tol < gap a call that returns counts neither the subject itself
\* nor any transaction closer to it than gap - tol days; with tol = 0 it counts
\* the transactions at a positive multiple of gap and no other; and
\* get_pct_transactions_days_apart is the count divided by len(all_transactions).
C24_CountLeavesOutSubjectAndCloseOnes ==
    LET gap    == call.n_days_apart
        tol    == call.n_days_off
        far    == Cardinality(FarEnough(gap, tol))
        exact  == Cardinality({i \in FarEnough(gap, 0) : Distance(i) > 0 /\ Distance(i) % gap = 0})
    IN  /\ (IsGetN /\ tol < gap /\ result.exc = "none") =>
              /\ result.v <= far
              /\ tol = 0 => result.v = exact
        /\ (IsGetPct /\ tol < gap /\ result.exc = "none") =>
              /\ QLe(result.v, Q(far, Len(all_transactions)))
              /\ tol = 0 => result.v = Q(exact, Len(all_transactions))

\* the share of a list that holds the subject itself and a transaction 28
\* days later, for the gap 14 and the tolerance 0: one of two
C24_Witness ==
    /\ call.fn = "features_original.get_pct_transactions_days_apart"
    /\ call.n_days_apart = 14 /\ call.n_days_off = 0
    /\ Len(all_transactions) = 2
    /\ AllDatesParse
    /\ Distance(1) = 0 /\ Distance(2) = 28
    /\ result.exc = "none" /\ result.v = Q(1, 2)

-----------------------------------------------------------------------------
(* Interval statistics of a merchant history                               *)

MaxHistory == 3     \* the longest merchant history

Netflix == <<"N", "e", "t", "f", "l", "i", "x">>

\* the recurring_transactions fixture of test_features.py, and a malformed date
HistoryDates == {isoformat(2025, 1, 1), isoformat(2025, 2, 1), isoformat(2025, 3, 1), InvalidDate}

HistoryTxs == {Tx("1", Netflix, Cents(1677), d) : d \in HistoryDates}

InitIntervalStats ==
    /\ transaction \in HistoryTxs
    /\ all_transactions \in BSeq(HistoryTxs, MaxHistory)
    /\ now = 0
    /\ cache = <<>>
    /\ parse_date_cache = <<>>
    /\ call = NoCall
    /\ result = NoResult
    /\ prev_result = NoResult

\* test_calculate_statistics, and get_features lines 627-637, on the history
\* all_transactions
CallIntervalStatistics ==
    /\ call = NoCall
    /\ call' = [fn |-> "_calculate_statistics"]
    /\ result' = [exc |-> "none",
                  v |-> _calculate_statistics(Floats(_calculate_intervals(ParsedDates(all_transactions))))]
    /\ UNCHANGED <<transaction, all_transactions, now, cache, parse_date_cache, prev_result>>

\* _calculate_intervals alone, on the dates of the history that parse
CallCalculateIntervals ==
    /\ call = NoCall
    /\ call' = [fn |-> "_calculate_intervals"]
    /\ result' = [exc |-> "none", v |-> _calculate_intervals(ParsedDates(all_transactions))]
    /\ UNCHANGED <<transaction, all_transactions, now, cache, parse_date_cache, prev_result>>

NextIntervalStats == CallIntervalStatistics \/ CallCalculateIntervals

SpecIntervalStats == InitIntervalStats /\ [][NextIntervalStats]_vars

Dates(txs) == [i \in 1..Len(txs) |-> txs[i].date]

IsFixtureHistory ==
    Dates(all_transactions) = <<isoformat(2025, 1, 1), isoformat(2025, 2, 1), isoformat(2025, 3, 1)>>

-----------------------------------------------------------------------------
(* Scores over interval_stats / amount_stats                               *)

\* the (target, tolerance) pairs of is_near_periodic_interval_feature
targets == <<<<7, 2>>, <<30, 3>>, <<365, 10>>>>

\* the score the loop computes for target number k
near_periodic_score(mean, k) ==
    LET target    == QInt(targets[k][1])
        tolerance == QInt(targets[k][2])
        deviation == QDiv(QAbs(QSub(mean, target)), target)
    IN  QSub(QOne, QMin(QDiv(deviation, QDiv(tolerance, target)), QOne))

\* the loop without its test std < 5
near_periodic_loop_ungated(mean, std) ==
    LET scores == {QZero} \cup {near_periodic_score(mean, k) : k \in 1..Len(targets)}
    IN  CHOOSE best \in scores : \A score \in scores : QLe(score, best)

\* the loop of is_near_periodic_interval_feature: best_score ends as the
\* largest of 0.0 and, when std < 5, the scores of the targets
near_periodic_loop(mean, std) ==
    LET scores == {QZero} \cup {near_periodic_score(mean, k) : k \in 1..Len(targets)}
    IN  IF QLt(std, QInt(5)) THEN CHOOSE best \in scores : \A score \in scores : QLe(score, best)
        ELSE QZero

is_near_periodic_interval_feature(interval_stats) ==
    IF IsZero(interval_stats.mean) THEN [exc |-> "none", v |-> QZero]
    ELSE [exc |-> "none", v |-> near_periodic_loop(interval_stats.mean, interval_stats.std)]

\* min(len(merchant_trans) / 5.0, 1.0)
frequency_score(merchant_trans) == QMin(Q(Len(merchant_trans), 5), QOne)

\* features.py: 1 / (x / y + 1) raises ZeroDivisionError when y = 0 or x / y = -1
recurrence_likelihood_feature(merchant_trans, interval_stats, amount_stats) ==
    LET interval_std   == interval_stats.std
        interval_den   == QAdd(QDiv(interval_std, QInt(10)), QOne)
        mean_amount    == amount_stats.mean
        shifted        == QAdd(mean_amount, Q(1, 100))
        amount_den     == QAdd(QDiv(amount_stats.std, shifted), QOne)
    IN  IF IsZero(interval_den) THEN [exc |-> "ZeroDivisionError", v |-> QZero]
        ELSE IF IsZero(shifted) THEN [exc |-> "ZeroDivisionError", v |-> QZero]
        ELSE IF IsZero(amount_den) THEN [exc |-> "ZeroDivisionError", v |-> QZero]
        ELSE [exc |-> "none",
              v |-> QMul(QMul(QDiv(QOne, interval_den), QDiv(QOne, amount_den)),
                         frequency_score(merchant_trans))]

\* features_laurels.py: the amount mean is floored at 0.01 and the divisor tested
laurels_recurrence_likelihood_feature(merchant_trans, interval_stats, amount_stats) ==
    LET interval_std   == interval_stats.std
        interval_den   == QAdd(QDiv(interval_std, QInt(10)), QOne)
        mean_amount    == amount_stats.mean
        divisor        == QAdd(QDiv(amount_stats.std, QMax(mean_amount, Q(1, 100))), QOne)
        amount_score   == IF IsZero(divisor) THEN QZero ELSE QDiv(QOne, divisor)
    IN  IF IsZero(interval_den) THEN [exc |-> "ZeroDivisionError", v |-> QZero]
        ELSE [exc |-> "none",
              v |-> QMul(QMul(QDiv(QOne, interval_den), amount_score),
                         frequency_score(merchant_trans))]

MaxStd == 6         \* the largest interval standard deviation, in days
MaxCount == 6       \* the longest merchant_trans handed to a score

IntervalMeans == {QZero, QInt(7), Q(59, 2), QInt(30), QInt(31), QInt(365)}

IntervalStds == {QInt(k) : k \in 0..MaxStd}

AmountMeans == {QInt(-10), Q(-1, 100), QZero, Cents(1677)}

AmountStds == {QZero, Q(1, 2), QInt(20)}

AmountStats == [mean : AmountMeans, std : AmountStds]

\* merchant_trans is all_transactions: n times the same transaction
InitScores ==
    /\ transaction = Tx("1", Netflix, Cents(1677), isoformat(2025, 1, 1))
    /\ all_transactions \in {[i \in 1..n |-> transaction] : n \in 0..MaxCount}
    /\ now = 0
    /\ cache = <<>>
    /\ parse_date_cache = <<>>
    /\ call = NoCall
    /\ result = NoResult
    /\ prev_result = NoResult

TwoStdCall(fn, mean, lo, hi, amount_stats) ==
    [fn |-> fn, interval_mean |-> mean, std_lo |-> lo, std_hi |-> hi, amount_stats |-> amount_stats]

\* is_near_periodic_interval_feature at two standard deviations lo <= hi
CallNearPeriodicTwice ==
    \E mean \in IntervalMeans, lo \in IntervalStds, hi \in IntervalStds :
        /\ call = NoCall
        /\ QLe(lo, hi)
        /\ call' = TwoStdCall("features.is_near_periodic_interval_feature", mean, lo, hi,
                              [mean |-> QZero, std |-> QZero])
        /\ result' = [lo |-> is_near_periodic_interval_feature([mean |-> mean, std |-> lo]),
                      hi |-> is_near_periodic_interval_feature([mean |-> mean, std |-> hi])]
        /\ UNCHANGED <<transaction, all_transactions, now, cache, parse_date_cache, prev_result>>

\* features.recurrence_likelihood_feature at two standard deviations lo <= hi
CallRecurrenceLikelihoodTwice ==
    \E mean \in {QZero, QInt(30)}, lo \in IntervalStds, hi \in IntervalStds, a \in AmountStats :
        /\ call = NoCall
        /\ QLe(lo, hi)
        /\ call' = TwoStdCall("features.recurrence_likelihood_feature", mean, lo, hi, a)
        /\ result' = [lo |-> recurrence_likelihood_feature(all_transactions, [mean |-> mean, std |-> lo], a),
                      hi |-> recurrence_likelihood_feature(all_transactions, [mean |-> mean, std |-> hi], a)]
        /\ UNCHANGED <<transaction, all_transactions, now, cache, parse_date_cache, prev_result>>

\* features_laurels.recurrence_likelihood_feature at two standard deviations lo <= hi
CallLaurelsRecurrenceLikelihoodTwice ==
    \E mean \in {QZero, QInt(30)}, lo \in IntervalStds, hi \in IntervalStds, a \in AmountStats :
        /\ call = NoCall
        /\ QLe(lo, hi)
        /\ call' = TwoStdCall("features_laurels.recurrence_likelihood_feature", mean, lo, hi, a)
        /\ result' = [lo |-> laurels_recurrence_likelihood_feature(all_transactions,
                                                                   [mean |-> mean, std |-> lo], a),
                      hi |-> laurels_recurrence_likelihood_feature(all_transactions,
                                                                   [mean |-> mean, std |-> hi], a)]
        /\ UNCHANGED <<transaction, all_transactions, now, cache, parse_date_cache, prev_result>>

NextScores ==
    CallNearPeriodicTwice \/ CallRecurrenceLikelihoodTwice \/ CallLaurelsRecurrenceLikelihoodTwice

SpecScores == InitScores /\ [][NextScores]_vars

IsTwoStdCall ==
    call.fn \in {"features.is_near_periodic_interval_feature",
                 "features.recurrence_likelihood_feature",
                 "features_laurels.recurrence_likelihood_feature"}

\* C8: with the merchant history and the amount statistics fixed, lowering the
\* interval standard deviation never lowers is_near_periodic_interval_feature
\* nor recurrence_likelihood_feature: std_lo <= std_hi gives score(std_lo) >= score(std_hi).
C8_LowerStdNeverLowersScore ==
    (IsTwoStdCall /\ result.lo.exc = "none" /\ result.hi.exc = "none") =>
        QLe(result.hi.v, result.lo.v)

\* the call returned a likelihood between 0 and 1
InUnitInterval(outcome) ==
    outcome.exc = "none" /\ QLe(QZero, outcome.v) /\ QLe(outcome.v, QOne)

\* C29: for every merchant history and every pair of statistics with
\* non-negative standard deviations, amount means below and at zero included,
\* recurrence_likelihood_feature of features.py and of features_laurels.py
\* returns without a division error and its result lies in [0, 1].
C29_LikelihoodIsInUnitInterval ==
    call.fn \in {"features.recurrence_likelihood_feature",
                 "features_laurels.recurrence_likelihood_feature"} =>
        InUnitInterval(result.lo) /\ InUnitInterval(result.hi)

\* the part of C29 that holds: the likelihood of features_laurels.py, whose
\* amount mean is floored at 0.01
C29_LaurelsLikelihoodIsInUnitInterval ==
    call.fn = "features_laurels.recurrence_likelihood_feature" =>
        InUnitInterval(result.lo) /\ InUnitInterval(result.hi)

-----------------------------------------------------------------------------
(* Vendor names                                                            *)

\* name.strip().lower().replace(" ", "").replace("-", "").replace("_", "")
_normalize_name(name) ==
    remove(remove(remove(lower(strip(name)), " "), "-"), "_")

MaxNameLen == 3     \* the longest vendor name

NameChars == {"a", "A", " ", "-", "_", "\t"}

VendorNames == BSeq(NameChars, MaxNameLen)

InitNames ==
    /\ transaction \in {Tx("1", nm, Cents(1677), isoformat(2025, 1, 1)) : nm \in VendorNames}
    /\ all_transactions = <<transaction>>
    /\ now = 0
    /\ cache = <<>>
    /\ parse_date_cache = <<>>
    /\ call = NoCall
    /\ result = NoResult
    /\ prev_result = NoResult

\* _normalize_name(transaction.name)
CallNormalizeName ==
    /\ call = NoCall
    /\ call' = [fn |-> "_normalize_name", name |-> transaction.name]
    /\ result' = [exc |-> "none", v |-> _normalize_name(transaction.name)]
    /\ UNCHANGED <<transaction, all_transactions, now, cache, parse_date_cache, prev_result>>

\* _normalize_name of the name the previous call returned
CallNormalizeNameAgain ==
    /\ call.fn = "_normalize_name"
    /\ call' = [fn |-> "_normalize_name again", name |-> result.v]
    /\ prev_result' = result
    /\ result' = [exc |-> "none", v |-> _normalize_name(result.v)]
    /\ UNCHANGED <<transaction, all_transactions, now, cache, parse_date_cache>>

NextNames == CallNormalizeName \/ CallNormalizeNameAgain

SpecNames == InitNames /\ [][NextNames]_vars

\* C7: _normalize_name is idempotent: normalising a normalised name, tabs next
\* to hyphens, underscores or spaces included, returns it unchanged.
C7_NormalizeIsIdempotent ==
    call.fn = "_normalize_name again" => result.v = prev_result.v

-----------------------------------------------------------------------------
(* utils.py: safe_feature, safe_feature_bool, safe_feature_int             *)
(* A Python value is [type, kind, v, s]: kind is "finite", "nan", "inf"    *)
(* or "-inf", v the number when finite, s the text of a str.  The wrapped  *)
(* functions return None, str, bool, int, float, np.float64 or np.int64,   *)
(* or raise a subclass of Exception.                                       *)

PyVal(type, kind, v, s) == [type |-> type, kind |-> kind, v |-> v, s |-> s]

PyNone == PyVal("NoneType", "finite", QZero, "")

PyStr(s) == PyVal("str", "finite", QZero, s)

PyBool(b) == PyVal("bool", "finite", IF b THEN QOne ELSE QZero, "")

PyInt(n) == PyVal("int", "finite", QInt(n), "")

PyFloat(q) == PyVal("float", "finite", q, "")

\* isinstance(val, int | float | np.floating | np.integer); bool is an int,
\* np.float64 a float and an np.floating, np.int64 an np.integer
IsNumber(val) == val.type \in {"bool", "int", "float", "np.float64", "np.int64"}

\* isinstance(val, float | np.floating) and not math.isfinite(val)
IsNonFiniteFloat(val) == val.type \in {"float", "np.float64"} /\ val.kind # "finite"

\* float(val) of a number
float(val) == PyVal("float", val.kind, val.v, "")

\* int(val) of a finite number: truncation towards zero
pyint(val) == PyInt(TruncDiv(val.v[1], val.v[2]))

\* bool(val)
bool(val) ==
    IF val.type = "NoneType" THEN PyBool(FALSE)
    ELSE IF val.type = "str" THEN PyBool(val.s # "")
    ELSE IF val.kind # "finite" THEN PyBool(TRUE)
    ELSE PyBool(~IsZero(val.v))

Returned(val) == [exc |-> "none", v |-> val]

\* val <= 0.0 (False for NaN and for inf)
LeZero(val) == val.kind = "-inf" \/ (val.kind = "finite" /\ QLe(val.v, QZero))

\* safe_feature without the math.isfinite test
safe_feature_no_isfinite(outcome) ==
    LET val == outcome.v
    IN  IF outcome.exc # "none" THEN Returned(PyFloat(QZero))
        ELSE IF ~IsNumber(val) THEN Returned(PyFloat(QZero))
        ELSE IF LeZero(val) THEN Returned(PyFloat(QZero))
        ELSE Returned(float(val))

\* the wrapper of safe_feature, given the outcome of fn(*args, **kwargs)
safe_feature(outcome) ==
    LET val == outcome.v
    IN  IF outcome.exc # "none" THEN Returned(PyFloat(QZero))
        ELSE IF ~IsNumber(val) THEN Returned(PyFloat(QZero))
        ELSE IF IsNonFiniteFloat(val) THEN Returned(PyFloat(QZero))
        ELSE IF LeZero(val) THEN Returned(PyFloat(QZero))
        ELSE Returned(float(val))

\* the wrapper of safe_feature_bool
safe_feature_bool(outcome) ==
    IF outcome.exc # "none" THEN Returned(PyBool(FALSE))
    ELSE Returned(bool(outcome.v))

\* the wrapper of safe_feature_int
safe_feature_int(outcome) ==
    LET val == outcome.v
    IN  IF outcome.exc # "none" THEN Returned(PyInt(0))
        ELSE IF ~IsNumber(val) THEN Returned(PyInt(0))
        ELSE IF IsNonFiniteFloat(val) THEN Returned(PyInt(0))
        ELSE IF LeZero(val) THEN Returned(PyInt(0))
        ELSE Returned(pyint(val))

MaxVal == 3         \* the largest magnitude a wrapped function returns

Exceptions == {"ValueError", "ZeroDivisionError", "IndexError"}

FloatKinds == {"nan", "inf", "-inf"}

\* what a wrapped function can do: raise, or return one of these values
WrappedOutcomes ==
    {[exc |-> e, v |-> PyNone] : e \in Exceptions}
    \cup {Returned(PyNone), Returned(PyStr("")), Returned(PyStr("invalid")),
          Returned(PyBool(TRUE)), Returned(PyBool(FALSE))}
    \cup {Returned(PyVal(t, "finite", QInt(n), "")) : t \in {"int", "np.int64"}, n \in (-MaxVal)..MaxVal}
    \cup {Returned(PyVal(t, "finite", Q(n, 2), "")) :
              t \in {"float", "np.float64"}, n \in (-2 * MaxVal)..(2 * MaxVal)}
    \cup {Returned(PyVal(t, k, QZero, "")) : t \in {"float", "np.float64"}, k \in FloatKinds}

InitSafe ==
    /\ transaction = Tx("1", Netflix, Cents(1677), isoformat(2025, 1, 1))
    /\ all_transactions = <<transaction>>
    /\ now = 0
    /\ cache = <<>>
    /\ parse_date_cache = <<>>
    /\ call = NoCall
    /\ result = NoResult
    /\ prev_result = NoResult

\* a call of a function decorated with @safe_feature
CallSafeFeature ==
    \E outcome \in WrappedOutcomes :
        /\ call = NoCall
        /\ call' = [fn |-> "safe_feature", wrapped |-> outcome]
        /\ result' = safe_feature(outcome)
        /\ UNCHANGED <<transaction, all_transactions, now, cache, parse_date_cache, prev_result>>

\* a call of a function decorated with @safe_feature_bool
CallSafeFeatureBool ==
    \E outcome \in WrappedOutcomes :
        /\ call = NoCall
        /\ call' = [fn |-> "safe_feature_bool", wrapped |-> outcome]
        /\ result' = safe_feature_bool(outcome)
        /\ UNCHANGED <<transaction, all_transactions, now, cache, parse_date_cache, prev_result>>

\* a call of a function decorated with @safe_feature_int
CallSafeFeatureInt ==
    \E outcome \in WrappedOutcomes :
        /\ call = NoCall
        /\ call' = [fn |-> "safe_feature_int", wrapped |-> outcome]
        /\ result' = safe_feature_int(outcome)
        /\ UNCHANGED <<transaction, all_transactions, now, cache, parse_date_cache, prev_result>>

NextSafe == CallSafeFeature \/ CallSafeFeatureBool \/ CallSafeFeatureInt

SpecSafe == InitSafe /\ [][NextSafe]_vars

IsSafeCall == call.fn \in {"safe_feature", "safe_feature_bool", "safe_feature_int"}

\* the results the numeric wrappers replace: non-numeric, NaN, infinite, zero, negative
ReplacedByDefault(val) ==
    \/ val.type \in {"NoneType", "str"}
    \/ val.kind \in {"nan", "inf", "-inf"}
    \/ ~QLt(QZero, val.v)

\* C6: a wrapped function never propagates an exception; it returns 0.0, 0 or
\* False when the wrapped function raises; the numeric wrappers return the
\* default for a non-numeric, NaN, infinite, zero or negative result and
\* float(result) / int(result) otherwise; the boolean wrapper returns bool(result).
C6_WrappersSanitize ==
    IsSafeCall =>
        /\ result.exc = "none"
        /\ call.fn = "safe_feature" =>
              result.v = IF call.wrapped.exc # "none" \/ ReplacedByDefault(call.wrapped.v)
                         THEN PyFloat(QZero) ELSE float(call.wrapped.v)
        /\ call.fn = "safe_feature_int" =>
              result.v = IF call.wrapped.exc # "none" \/ ReplacedByDefault(call.wrapped.v)
                         THEN PyInt(0) ELSE pyint(call.wrapped.v)
        /\ call.fn = "safe_feature_bool" =>
              result.v = IF call.wrapped.exc # "none"
                         THEN PyBool(FALSE) ELSE bool(call.wrapped.v)

\* safe_feature_int of a function returning np.float64(2.5) returned the int 2
C6_Witness ==
    /\ call.fn = "safe_feature_int"
    /\ call.wrapped = Returned(PyVal("np.float64", "finite", Q(5, 2), ""))
    /\ result = Returned(PyInt(2))

-----------------------------------------------------------------------------
(* features.py: the feature functions of get_features                      *)

\* list.sort(key=lambda x: x.date): a stable sort by the date string
RECURSIVE sort_by_date(_)
sort_by_date(txs) ==
    IF txs = <<>> THEN <<>>
    ELSE LET front == sort_by_date(SubSeq(txs, 1, Len(txs) - 1))
             x     == txs[Len(txs)]
             k     == Cardinality({i \in 1..Len(front) : ~StrLt(x.date, front[i].date)})
         IN  SubSeq(front, 1, k) \o <<x>> \o SubSeq(front, k + 1, Len(front))

Amounts(txs) == [i \in 1..Len(txs) |-> txs[i].amount]

\* [date.day for date in [_parse_date(t.date) for t in merchant_trans] if date]
Days(merchant_trans) ==
    LET dates == ParsedDates(merchant_trans)
    IN  [i \in 1..Len(dates) |-> dates[i][3]]

Range(f) == {f[i] : i \in DOMAIN f}

get_n_transactions_same_amount(t, txs) ==
    Cardinality({i \in 1..Len(txs) : txs[i].amount = t.amount})

get_percent_transactions_same_amount(t, txs) ==
    IF txs = <<>> THEN QZero
    ELSE Q(get_n_transactions_same_amount(t, txs), Len(txs))

identical_transaction_ratio_feature(t, txs, merchant_trans) ==
    LET identical_transaction_count ==
            Cardinality({i \in 1..Len(merchant_trans) :
                            merchant_trans[i].amount = t.amount /\ merchant_trans[i].name = t.name})
    IN  IF Len(txs) > 0 THEN Q(identical_transaction_count, Len(txs)) ELSE QZero

is_monthly_recurring_feature(merchant_trans) ==
    LET days == Days(merchant_trans)
        unique_days == Cardinality(Range(days))
    IN  IF Len(merchant_trans) <= 1 THEN QZero
        ELSE IF days = <<>> THEN QZero
        ELSE QSub(QOne, QMin(Q(unique_days - 1, 5), QOne))

is_varying_amount_recurring_feature(interval_stats, amount_stats) ==
    IF /\ QLt(interval_stats.std, QInt(45))
       /\ QLt(QZero, amount_stats.mean)
       /\ QLt(Q(2, 1000), QDiv(amount_stats.std, amount_stats.mean))
    THEN QOne ELSE QZero

day_consistency_score_feature(merchant_trans) ==
    LET days == Days(merchant_trans)
    IN  IF days = <<>> THEN QZero
        ELSE IF Len(days) = 1 THEN Q(1, 2)
        ELSE QSub(QOne, QMin(QDiv(np_std(Floats(days)), QInt(3)), QOne))

merchant_amount_std_feature(amount_stats) ==
    IF QLt(QZero, amount_stats.mean) THEN truediv(amount_stats.std, amount_stats.mean)
    ELSE Returned(QZero)

merchant_interval_std_feature(interval_stats) ==
    IF QLt(QZero, interval_stats.std) THEN interval_stats.std ELSE QInt(30)

merchant_interval_mean_feature(interval_stats) ==
    IF QLt(QZero, interval_stats.mean) THEN interval_stats.mean ELSE QInt(60)

\* the day datetime.now() falls on when the clock reads 0
ClockStart == <<2025, 6, 1>>

\* (now - date).days, the clock reading clock days after ClockStart
DaysSince(date, clock) == DaysBetween(ClockStart, date) + clock

Sum(ints) == QSum(Floats(ints))

MinDate(dates) == CHOOSE d \in Range(dates) : \A e \in Range(dates) : Ordinal(d) <= Ordinal(e)

\* clock is the reading of datetime.now()
time_since_last_transaction_same_merchant_feature(parsed_dates, clock) ==
    IF parsed_dates = <<>> THEN QZero
    ELSE IF Len(parsed_dates) = 1 THEN Q(DaysSince(parsed_dates[1], clock), 365)
    ELSE LET intervals == _calculate_intervals(parsed_dates)
         IN  IF intervals # <<>> THEN QDiv(QDiv(Sum(intervals), QInt(Len(intervals))), QInt(365))
             ELSE Q(DaysSince(MinDate(parsed_dates), clock), 365)

is_deposit_feature(t, merchant_trans) ==
    IF QLt(QZero, t.amount) /\ Len(merchant_trans) >= 3 THEN QOne ELSE QZero

day_of_week_feature(t) ==
    LET date == _parse_date(t.date)
    IN  IF date # None THEN Q(weekday(date), 6) ELSE QZero

transaction_month_feature(t) ==
    LET date == _parse_date(t.date)
    IN  IF date # None THEN Q(date[2] - 1, 11) ELSE QZero

rolling_amount_mean_feature(merchant_trans) ==
    LET n == Len(merchant_trans)
        amounts == Amounts(SubSeq(merchant_trans, Max(1, n - 2), n))
    IN  IF amounts # <<>> THEN QDiv(QSum(amounts), QInt(Len(amounts))) ELSE QZero

\* the ratio is float("inf") when the mean is not positive
low_amount_variation_feature(amount_stats) ==
    IF QLt(QZero, amount_stats.mean) /\ QLe(QDiv(amount_stats.std, amount_stats.mean), Q(1, 10))
    THEN QOne ELSE QZero

is_single_transaction_feature(merchant_trans) ==
    IF Len(merchant_trans) = 1 THEN QOne ELSE QZero

\* interval_variability_feature giving 0.0 for a mean of 0
interval_variability_feature_zero(interval_stats) ==
    LET mean  == interval_stats.mean
        ratio == truediv(interval_stats.std, mean)
    IN  IF IsZero(mean) THEN Returned(QZero)
        ELSE IF ratio.exc # "none" THEN ratio
        ELSE Returned(QMin(ratio.v, QInt(2)))

interval_variability_feature(interval_stats) ==
    LET mean  == interval_stats.mean
        ratio == truediv(interval_stats.std, mean)
    IN  IF IsZero(mean) THEN Returned(QOne)
        ELSE IF ratio.exc # "none" THEN ratio
        ELSE Returned(QMin(ratio.v, QInt(2)))

merchant_amount_frequency_feature(merchant_trans) ==
    QInt(Cardinality(Range(Amounts(merchant_trans))))

\* the interval ratio taken for every mean other than 0
non_recurring_irregularity_score_nonzero(merchant_trans, interval_stats, amount_stats) ==
    LET mean_interval   == interval_stats.mean
        interval_var    == IF ~IsZero(mean_interval)
                           THEN QDiv(interval_stats.std, mean_interval) ELSE QZero
        interval_score  == QMin(interval_var, QOne)
        amount_var      == IF QLt(QZero, amount_stats.mean)
                           THEN QDiv(amount_stats.std, amount_stats.mean) ELSE QZero
        amount_score    == QMin(amount_var, QOne)
        freq_score      == QSub(QOne, QMin(Q(Len(merchant_trans), 5), QOne))
        total_score     == QAdd(QAdd(QMul(Q(4, 10), interval_score), QMul(Q(3, 10), amount_score)),
                                QMul(Q(3, 10), freq_score))
    IN  QMin(total_score, QOne)

non_recurring_irregularity_score(merchant_trans, interval_stats, amount_stats) ==
    LET mean_interval   == interval_stats.mean
        interval_var    == IF QLt(QZero, mean_interval)
                           THEN QDiv(interval_stats.std, mean_interval) ELSE QZero
        interval_score  == QMin(interval_var, QOne)
        amount_var      == IF QLt(QZero, amount_stats.mean)
                           THEN QDiv(amount_stats.std, amount_stats.mean) ELSE QZero
        amount_score    == QMin(amount_var, QOne)
        freq_score      == QSub(QOne, QMin(Q(Len(merchant_trans), 5), QOne))
        total_score     == QAdd(QAdd(QMul(Q(4, 10), interval_score), QMul(Q(3, 10), amount_score)),
                                QMul(Q(3, 10), freq_score))
    IN  QMin(total_score, QOne)

\* math.log(n) in thousandths, for the counts a short history can give
LnTable == <<0, 693, 1099, 1386, 1609, 1792, 1946, 2079>>

Ln(n) == Q(LnTable[n], 1000)

\* np.log(52)
Ln52 == Q(3951, 1000)

\* [min(max(1, int(i / 7)), 52) for i in intervals]
Bins(intervals) == [k \in 1..Len(intervals) |-> Min(Max(1, TruncDiv(intervals[k], 7)), 52)]

\* scipy.stats.entropy(value_counts / value_counts.sum()) for the bincount of
\* bins: ln(n) - sum(c * ln(c)) / n over the counts c of the bins in use
entropy(bins) ==
    LET n      == Len(bins)
        used   == Range(bins)
        count(b) == Cardinality({k \in 1..n : bins[k] = b})
        first(b) == CHOOSE k \in 1..n : bins[k] = b /\ \A j \in 1..(k - 1) : bins[j] # b
        firsts == {first(b) : b \in used}
        terms  == [k \in 1..n |-> IF k \in firsts
                                  THEN QMul(QInt(count(bins[k])), Ln(count(bins[k])))
                                  ELSE QZero]
    IN  QSub(Ln(n), QDiv(QSum(terms), QInt(n)))

\* entropy(...) / np.log(52) if value_counts.sum() > 0 else 0.0
interval_entropy(intervals) ==
    IF intervals = <<>> THEN QZero
    ELSE QDiv(entropy(Bins(intervals)), Ln52)

transaction_pattern_complexity(merchant_trans, interval_stats) ==
    LET parsed_dates  == ParsedDates(merchant_trans)
        intervals     == _calculate_intervals(parsed_dates)
        mean_interval == interval_stats.mean
        interval_var  == IF QLt(QZero, mean_interval)
                         THEN QDiv(interval_stats.std, mean_interval) ELSE QZero
        interval_var_score == QMin(interval_var, QOne)
        amounts       == Amounts(merchant_trans)
        amount_entropy == IF amounts # <<>>
                          THEN QMin(Q(Cardinality(Range(amounts)), 10), QOne) ELSE QZero
        freq_score    == QSub(QOne, QMin(Q(Len(merchant_trans), 5), QOne))
        total_score   == QAdd(QAdd(QMul(Q(4, 10), interval_entropy(intervals)),
                                   QMul(Q(3, 10), interval_var_score)),
                              QAdd(QMul(Q(2, 10), amount_entropy), QMul(Q(1, 10), freq_score)))
    IN  IF intervals = <<>> THEN QZero ELSE QMin(total_score, QOne)

\* min(abs(mean - target) / target for target in [7, 30, 365])
MinDeviation(mean) ==
    QMin(QDiv(QAbs(QSub(mean, QInt(7))), QInt(7)),
         QMin(QDiv(QAbs(QSub(mean, QInt(30))), QInt(30)),
              QDiv(QAbs(QSub(mean, QInt(365))), QInt(365))))

date_irregularity_dominance(merchant_trans, interval_stats, amount_stats) ==
    LET parsed_dates  == ParsedDates(merchant_trans)
        intervals     == _calculate_intervals(parsed_dates)
        n_trans       == Len(merchant_trans)
        entropy_score == interval_entropy(intervals)
        deviation_score == QMin(QMul(MinDeviation(interval_stats.mean), QInt(3)), QOne)
        freq_score    == QSub(QOne, QMin(Q(n_trans, 5), QOne))
        amount_consistency ==
            QSub(QOne, QMin(IF QLt(QZero, amount_stats.mean)
                            THEN QDiv(amount_stats.std, amount_stats.mean) ELSE QZero, QOne))
    IN  IF n_trans <= 1 THEN Q(1, 2)
        ELSE QMin(QAdd(QAdd(QMul(Q(5, 10), entropy_score), QMul(Q(3, 10), deviation_score)),
                       QAdd(QMul(Q(1, 10), freq_score), QMul(Q(1, 10), amount_consistency))),
                  QOne)

always_recurring_vendors ==
    {<<"g", "o", "o", "g", "l", "e", " ", "s", "t", "o", "r", "a", "g", "e">>,
     <<"n", "e", "t", "f", "l", "i", "x">>,
     <<"h", "u", "l", "u">>,
     <<"s", "p", "o", "t", "i", "f", "y">>}

get_is_always_recurring(t) == lower(t.name) \in always_recurring_vendors

\* \w of a regular expression
IsWordChar(c) == IsDigit(c) \/ IsUpper(c) \/ c = "_" \/ (Ord(c) >= Ord("a") /\ Ord(c) <= Ord("z"))

\* re.search(r"\b(w)\b", name, re.IGNORECASE) for a word w that starts and ends
\* with a word character
SearchWord(name, w) ==
    \E i \in 1..(Len(name) - Len(w) + 1) :
        /\ lower(SubSeq(name, i, i + Len(w) - 1)) = w
        /\ i = 1 \/ ~IsWordChar(name[i - 1])
        /\ i + Len(w) - 1 = Len(name) \/ ~IsWordChar(name[i + Len(w)])

get_is_insurance(t) ==
    \E w \in {<<"i", "n", "s", "u", "r", "a", "n", "c", "e">>,
              <<"i", "n", "s", "u", "r">>,
              <<"i", "n", "s", "u", "r", "a", "n", "c">>} : SearchWord(t.name, w)

get_is_utility(t) ==
    \E w \in {<<"u", "t", "i", "l", "i", "t", "y">>,
              <<"u", "t", "i", "l", "i", "t">>,
              <<"e", "n", "e", "r", "g", "y">>} : SearchWord(t.name, w)

get_is_phone(t) ==
    \E w \in {<<"a", "t", "&", "t">>,
              <<"t", "-", "m", "o", "b", "i", "l", "e">>,
              <<"v", "e", "r", "i", "z", "o", "n">>} : SearchWord(t.name, w)

\* floor(log2(n / d)) for 0 < n < 2^21 * d: the exponent of the double n / d
Log2Floor(n, d) ==
    IF n >= d THEN Cardinality({j \in 1..20 : (2 ^ j) * d <= n})
    ELSE -Cardinality({j \in 0..20 : (2 ^ j) * n < d})

RECURSIVE Pow2Mod(_, _)
\* 2^s mod m
Pow2Mod(s, m) == IF s = 0 THEN 1 % m ELSE (2 * Pow2Mod(s - 1, m)) % m

\* n / d rounded to the nearest integer, a tie to the even one, for d > 0
RoundHalfEven(n, d) ==
    LET q == n \div d
        r == n % d
    IN  IF 2 * r > d \/ (2 * r = d /\ q % 2 = 1) THEN q + 1 ELSE q

\* amount * 100 for the double amount nearest to c / 100, c > 0 whole cents:
\* the product is the double c + k * ulp(c), and this is k.  The stored
\* amount is N / 2^s with N = c * 2^s / 100 rounded to 53 bits, so 100 times
\* it is c + delta / 2^s with delta the rounding of N in hundredths, which
\* the multiplication rounds to a multiple of ulp(c).
float_mul_100_error(c) ==
    LET ex    == Log2Floor(c, 100)
        ec    == Log2Floor(c, 1)
        s     == 52 - ex
        r     == (c * Pow2Mod(s, 100)) % 100
        r200  == (c * Pow2Mod(s, 200)) % 200
        odd   == ((r200 - r) \div 100) % 2 = 1
        delta == IF r < 50 THEN -r ELSE IF r > 50 THEN 100 - r ELSE IF odd THEN 50 ELSE -50
    IN  RoundHalfEven(delta, 2 ^ (ec - ex))

\* (transaction.amount * 100) % 100 for an amount of whole cents: the double
\* n + k * ulp, with n in 0..100 and the sign of the divisor as Python gives it
float_mul_100_mod_100(amount) ==
    LET c == amount[1] * (100 \div amount[2])
        e == IF c = 0 THEN 0 ELSE float_mul_100_error(Abs(c))
        k == IF c < 0 THEN -e ELSE e
    IN  [n |-> IF c % 100 = 0 /\ k < 0 THEN 100 ELSE c % 100, k |-> k]

\* features.py: (transaction.amount * 100) % 100 == 99
get_ends_in_99(t) ==
    LET cents == float_mul_100_mod_100(t.amount)
    IN  cents.n = 99 /\ cents.k = 0

\* features_original.py: abs((transaction.amount * 100) % 100 - 99) < 0.001,
\* k * ulp being far below 0.001
original_get_ends_in_99(t) ==
    LET cents == float_mul_100_mod_100(t.amount)
    IN  cents.n = 99

\* the list comprehension of get_n_transactions_same_day from txs on, n found so
\* far: _get_day(t.date) is evaluated first, then _get_day(transaction.date)
RECURSIVE same_day_loop(_, _, _, _)
same_day_loop(t, txs, n_days_off, n) ==
    IF txs = <<>> THEN [exc |-> "none", v |-> n]
    ELSE LET theirs == _get_day(txs[1].date)
             ours   == _get_day(t.date)
         IN  IF theirs.exc # "none" THEN [exc |-> theirs.exc, v |-> 0]
             ELSE IF ours.exc # "none" THEN [exc |-> ours.exc, v |-> 0]
             ELSE same_day_loop(t, Tail(txs), n_days_off,
                                IF Abs(theirs.v - ours.v) <= n_days_off THEN n + 1 ELSE n)

get_n_transactions_same_day(t, txs, n_days_off) == same_day_loop(t, txs, n_days_off, 0)

get_pct_transactions_same_day(t, txs, n_days_off) ==
    LET n == get_n_transactions_same_day(t, txs, n_days_off)
    IN  IF n.exc # "none" THEN [exc |-> n.exc, v |-> QZero]
        ELSE IF Len(txs) = 0 THEN [exc |-> "ZeroDivisionError", v |-> QZero]
        ELSE [exc |-> "none", v |-> Q(n.v, Len(txs))]

\* the keys of features_dict, in the order of the dict literal
FeatureKeys ==
    <<"n_transactions_same_amount", "percent_transactions_same_amount",
      "identical_transaction_ratio", "is_monthly_recurring", "recurrence_likelihood",
      "is_varying_amount_recurring", "day_consistency_score", "is_near_periodic_interval",
      "merchant_amount_std", "merchant_interval_std", "merchant_interval_mean",
      "time_since_last_transaction_same_merchant", "is_deposit", "day_of_week",
      "transaction_month", "rolling_amount_mean", "low_amount_variation",
      "is_single_transaction", "interval_variability", "merchant_amount_frequency",
      "non_recurring_irregularity_score", "transaction_pattern_complexity",
      "date_irregularity_dominance", "ends_in_99", "amount", "same_day_exact",
      "pct_transactions_same_day", "same_day_off_by_1", "same_day_off_by_2",
      "14_days_apart_exact", "pct_14_days_apart_exact", "14_days_apart_off_by_1",
      "pct_14_days_apart_off_by_1", "7_days_apart_exact", "pct_7_days_apart_exact",
      "7_days_apart_off_by_1", "pct_7_days_apart_off_by_1", "is_insurance", "is_utility",
      "is_phone", "is_always_recurring">>

\* a dict literal: the keys with their values, in order
Dict(keys, values) == [k \in Range(keys) |-> values[CHOOSE i \in 1..Len(keys) : keys[i] = k]]

Raised(e) == [exc |-> e, v |-> <<>>]

\* the first element of a sequence of outcomes that raised, 0 when none did
FirstRaise(outcomes) ==
    IF \A i \in 1..Len(outcomes) : outcomes[i].exc = "none" THEN 0
    ELSE CHOOSE i \in 1..Len(outcomes) :
            outcomes[i].exc # "none" /\ \A j \in 1..(i - 1) : outcomes[j].exc = "none"

\* merchant_trans of get_features: the group of the transaction, sorted by date
\* the lists with the in-place sort applied to the argument of the call
ListsAfterSort_of_argument(t, txs) ==
    LET group == GroupGet(_aggregate_transactions(txs), t.user_id, t.name)
    IN  [all_transactions |-> sort_by_date(txs), merchant_trans |-> sort_by_date(group)]

\* the lists that get_features lines 615-625 (features_original.py 451-454)
\* leave behind, under the names that refer to them: the bucket that
\* groups.get(...).get(...) returns is a list _aggregate_transactions built by
\* append, or the new [] of the default, and merchant_trans.sort sorts that
\* list in place; no statement has the argument as its target
ListsAfterSort(t, txs) ==
    LET group == GroupGet(_aggregate_transactions(txs), t.user_id, t.name)
    IN  [all_transactions |-> txs, merchant_trans |-> sort_by_date(group)]

MerchantTrans(t, txs) ==
    The({sort_by_date(group) : group \in {GroupGet(_aggregate_transactions(txs), t.user_id, t.name)}})

\* an int outcome as the number it equals: 2 == 2.0
IntOutcome(outcome) == [exc |-> outcome.exc, v |-> QInt(outcome.v)]

\* the values of the dict literal of get_features in the order it evaluates
\* them, each the outcome of its call
features_dict(t, txs, clock, merchant_trans, parsed_dates, interval_stats, amount_stats) ==
    <<Returned(QInt(get_n_transactions_same_amount(t, txs))),
      Returned(get_percent_transactions_same_amount(t, txs)),
      Returned(identical_transaction_ratio_feature(t, txs, merchant_trans)),
      Returned(is_monthly_recurring_feature(merchant_trans)),
      recurrence_likelihood_feature(merchant_trans, interval_stats, amount_stats),
      Returned(is_varying_amount_recurring_feature(interval_stats, amount_stats)),
      Returned(day_consistency_score_feature(merchant_trans)),
      is_near_periodic_interval_feature(interval_stats),
      merchant_amount_std_feature(amount_stats),
      Returned(merchant_interval_std_feature(interval_stats)),
      Returned(merchant_interval_mean_feature(interval_stats)),
      Returned(time_since_last_transaction_same_merchant_feature(parsed_dates, clock)),
      Returned(is_deposit_feature(t, merchant_trans)),
      Returned(day_of_week_feature(t)),
      Returned(transaction_month_feature(t)),
      Returned(rolling_amount_mean_feature(merchant_trans)),
      Returned(low_amount_variation_feature(amount_stats)),
      Returned(is_single_transaction_feature(merchant_trans)),
      interval_variability_feature(interval_stats),
      Returned(merchant_amount_frequency_feature(merchant_trans)),
      Returned(non_recurring_irregularity_score(merchant_trans, interval_stats, amount_stats)),
      Returned(transaction_pattern_complexity(merchant_trans, interval_stats)),
      Returned(date_irregularity_dominance(merchant_trans, interval_stats, amount_stats)),
      Returned(get_ends_in_99(t)),
      Returned(t.amount),
      IntOutcome(get_n_transactions_same_day(t, txs, 0)),
      get_pct_transactions_same_day(t, txs, 0),
      IntOutcome(get_n_transactions_same_day(t, txs, 1)),
      IntOutcome(get_n_transactions_same_day(t, txs, 2)),
      IntOutcome(get_n_transactions_days_apart(t, txs, 14, 0)),
      get_pct_transactions_days_apart(t, txs, 14, 0),
      IntOutcome(get_n_transactions_days_apart(t, txs, 14, 1)),
      get_pct_transactions_days_apart(t, txs, 14, 1),
      IntOutcome(get_n_transactions_days_apart(t, txs, 7, 0)),
      get_pct_transactions_days_apart(t, txs, 7, 0),
      IntOutcome(get_n_transactions_days_apart(t, txs, 7, 1)),
      get_pct_transactions_days_apart(t, txs, 7, 1),
      Returned(get_is_insurance(t)),
      Returned(get_is_utility(t)),
      Returned(get_is_phone(t)),
      Returned(get_is_always_recurring(t))>>

\* lines 627-638 of get_features: the dates, intervals, amounts and statistics
features_of_dates(t, txs, clock, merchant_trans, parsed_dates) ==
    The({features_dict(t, txs, clock, merchant_trans, parsed_dates, interval_stats, amount_stats) :
            interval_stats \in {_calculate_statistics(Floats(_calculate_intervals(parsed_dates)))},
            amount_stats \in {_calculate_statistics(Amounts(merchant_trans))}})

features_of_group(t, txs, clock, merchant_trans) ==
    The({features_of_dates(t, txs, clock, merchant_trans, parsed_dates) :
            parsed_dates \in {ParsedDates(merchant_trans)}})

\* the outcomes of the entries of features_dict, datetime.now() reading clock
FeatureEntries(t, txs, clock) ==
    The({features_of_group(t, txs, clock, merchant_trans) : merchant_trans \in {MerchantTrans(t, txs)}})

\* the exception of the first entry that raises, else the mapping
FeaturesOutcome(entries) ==
    IF FirstRaise(entries) # 0 THEN Raised(entries[FirstRaise(entries)].exc)
    ELSE [exc |-> "none", v |-> Dict(FeatureKeys, [i \in 1..Len(entries) |-> entries[i].v])]

\* get_features(transaction, all_transactions), datetime.now() reading clock
get_features(t, txs, clock) ==
    The({FeaturesOutcome(entries) : entries \in {FeatureEntries(t, txs, clock)}})

-----------------------------------------------------------------------------
(* features_original.py: the scorers of get_new_features.  Decimal(str(x)) *)
(* of an amount x is the number of cents / 100 that x holds, and Decimal   *)
(* arithmetic on such numbers is exact.                                    *)

RECURRING_VENDORS ==
    {<<"n", "e", "t", "f", "l", "i", "x">>,
     <<"h", "u", "l", "u">>,
     <<"s", "p", "o", "t", "i", "f", "y">>,
     <<"a", "m", "a", "z", "o", "n", "p", "r", "i", "m", "e">>,
     <<"a", "u", "d", "i", "b", "l", "e">>,
     <<"s", "i", "r", "i", "u", "s", "x", "m">>,
     <<"p", "l", "a", "n", "e", "t", "f", "i", "t", "n", "e", "s", "s">>,
     <<"a", "p", "p", "l", "e">>,
     <<"m", "i", "c", "r", "o", "s", "o", "f", "t">>,
     <<"a", "d", "o", "b", "e">>,
     <<"n", "o", "r", "t", "o", "n">>,
     <<"d", "r", "o", "p", "b", "o", "x">>,
     <<"e", "v", "e", "r", "n", "o", "t", "e">>,
     <<"s", "p", "r", "i", "n", "t">>,
     <<"t", "m", "o", "b", "i", "l", "e">>,
     <<"v", "e", "r", "i", "z", "o", "n">>,
     <<"l", "e", "m", "o", "n", "a", "d", "e", "i", "n", "s", "u", "r", "a", "n", "c", "e">>,
     <<"w", "a", "t", "e", "r", "f", "o", "r", "d", "g", "r", "o", "v", "e", "a", "p", "a">>,
     <<"c", "l", "e", "o">>,
     <<"w", "a", "t", "e", "r", "f", "o", "r", "d", "g", "r", "o", "v", "e">>,
     <<"s", "t", "r", "a", "i", "g", "h", "t", "t", "a", "l", "k">>,
     <<"a", "m", "a", "z", "o", "n", "p", "r", "i", "m", "e", "v", "i", "d", "e", "o">>}

NON_RECURRING_VENDORS ==
    {<<"h", "o", "g", "w", "a", "r", "t", "s", "b", "r", "i", "g", "h", "t">>,
     <<"r", "a", "v", "i", "o", "l", "i", "c", "h", "e", "o">>,
     <<"c", "h", "e", "v", "r", "o", "n">>,
     <<"w", "a", "l", "m", "a", "r", "t">>,
     <<"t", "a", "r", "g", "e", "t">>,
     <<"s", "t", "a", "r", "b", "u", "c", "k", "s">>,
     <<"m", "c", "d", "o", "n", "a", "l", "d", "s">>,
     <<"u", "b", "e", "r">>,
     <<"l", "y", "f", "t">>,
     <<"g", "r", "u", "b", "h", "u", "b">>,
     <<"b", "e", "s", "t", "b", "u", "y">>,
     <<"h", "o", "m", "e", "d", "e", "p", "o", "t">>,
     <<"l", "o", "w", "e", "s">>,
     <<"t", "i", "c", "k", "e", "t", "m", "a", "s", "t", "e", "r">>,
     <<"a", "m", "c", "t", "h", "e", "a", "t", "r", "e", "s">>,
     <<"v", "o", "l", "a">>}

\* w in s, for str
Contains(s, w) == \E i \in 1..(Len(s) - Len(w) + 1) : SubSeq(s, i, i + Len(w) - 1) = w

get_is_amazon_prime(t) ==
    PyBool(Contains(lower(t.name), <<"a", "m", "a", "z", "o", "n", " ", "p", "r", "i", "m", "e">>))

\* the function under @safe_feature_bool
get_is_known_recurring_vendor_fn(t) == Returned(PyBool(_normalize_name(t.name) \in RECURRING_VENDORS))

get_is_known_recurring_vendor(t) ==
    The({safe_feature_bool(outcome) : outcome \in {get_is_known_recurring_vendor_fn(t)}})

\* the function under @safe_feature_bool
get_is_known_non_recurring_vendor_fn(t) ==
    Returned(PyBool(_normalize_name(t.name) \in NON_RECURRING_VENDORS))

get_is_known_non_recurring_vendor(t) ==
    The({safe_feature_bool(outcome) : outcome \in {get_is_known_non_recurring_vendor_fn(t)}})

\* a < b for numbers whose cross products do not fit in 32 bits: by the
\* integer parts, then by the reciprocals of the fractional parts
RECURSIVE DecimalLt(_, _)
DecimalLt(a, b) ==
    LET fa == a[1] \div a[2]
        fb == b[1] \div b[2]
        ra == a[1] % a[2]
        rb == b[1] % b[2]
    IN  IF fa # fb THEN fa < fb
        ELSE IF rb = 0 THEN FALSE
        ELSE IF ra = 0 THEN TRUE
        ELSE DecimalLt(<<b[2], rb>>, <<a[2], ra>>)

DecimalLe(a, b) == ~DecimalLt(b, a)

\* Decimal("1e-8")
Decimal1e8 == <<1, 100000000>>

\* the function under @safe_feature_int: the divisor ref_amount + 1e-8 is
\* zero for no amount in cents
get_same_amount_count_fn(merchant_trans) ==
    LET ref_amount == merchant_trans[1].amount
        ratio(t)   == QDiv(QAbs(QSub(t.amount, ref_amount)), QAdd(ref_amount, Decimal1e8))
    IN  IF merchant_trans = <<>> THEN Returned(PyInt(0))
        ELSE Returned(PyInt(Cardinality({i \in 1..Len(merchant_trans) :
                                            DecimalLe(ratio(merchant_trans[i]), Q(1, 100))})))

get_same_amount_count(merchant_trans) ==
    The({safe_feature_int(outcome) : outcome \in {get_same_amount_count_fn(merchant_trans)}})

\* amount % 1 of a Decimal: the remainder has the sign of the amount
DecimalMod1(a) == QSub(a, QInt(TruncDiv(a[1], a[2])))

\* the function with the name test made on transaction.name as it is
get_is_albert_99_recurring_fn_raw_name(t) ==
    LET cents == DecimalMod1(t.amount)
    IN  Returned(PyBool(/\ Contains(t.name, <<"a", "l", "b", "e", "r", "t">>)
                        /\ QLt(QAbs(QSub(cents, Q(99, 100))), Q(1, 1000))))

\* the function under @safe_feature_bool
get_is_albert_99_recurring_fn(t) ==
    LET cents == DecimalMod1(t.amount)
    IN  Returned(PyBool(/\ Contains(_normalize_name(t.name), <<"a", "l", "b", "e", "r", "t">>)
                        /\ QLt(QAbs(QSub(cents, Q(99, 100))), Q(1, 1000))))

get_is_albert_99_recurring(t) ==
    The({safe_feature_bool(outcome) : outcome \in {get_is_albert_99_recurring_fn(t)}})

\* sorted(xs) for a list of int
SortedInts(xs) ==
    [k \in 1..Len(xs) |->
        CHOOSE v \in Range(xs) : /\ Cardinality({i \in 1..Len(xs) : xs[i] < v}) < k
                                 /\ k <= Cardinality({i \in 1..Len(xs) : xs[i] <= v})]

\* [parse_date(t.date) for t in merchant_trans]: the outcomes of utils.parse_date
ParseDateOutcomes(merchant_trans) ==
    [i \in 1..Len(merchant_trans) |-> parse_date(merchant_trans[i].date)]

\* features_original._calc_intervals: the first malformed date raises the
\* ValueError of parse_date; a date object is never falsy
_calc_intervals(merchant_trans) ==
    LET parsed == ParseDateOutcomes(merchant_trans)
        dates  == SortedInts([i \in 1..Len(parsed) |-> Ordinal(parsed[i].v)])
    IN  IF \E i \in 1..Len(parsed) : parsed[i].exc # "none" THEN [exc |-> "ValueError", v |-> <<>>]
        ELSE IF Len(dates) < 2 THEN Returned(<<>>)
        ELSE Returned([i \in 1..(Len(dates) - 1) |-> dates[i + 1] - dates[i]])

\* the function with the absolute tolerance as its only test
get_amount_consistency_score_fn_absolute_only(merchant_trans, absolute_tol, relative_tol) ==
    LET amounts   == SelectSeq(Amounts(merchant_trans), LAMBDA a : QLt(QZero, a))
        mean_amt  == QDiv(QSum(amounts), QInt(Len(amounts)))
        diff(a)   == QAbs(QSub(a, mean_amt))
        consistent == Cardinality({i \in 1..Len(amounts) : QLe(diff(amounts[i]), absolute_tol)})
    IN  IF Len(amounts) < 2 THEN Returned(PyFloat(QZero))
        ELSE Returned(PyFloat(Q(consistent, Len(amounts))))

\* the function under @safe_feature
get_amount_consistency_score_fn(merchant_trans, absolute_tol, relative_tol) ==
    LET amounts   == SelectSeq(Amounts(merchant_trans), LAMBDA a : QLt(QZero, a))
        mean_amt  == QDiv(QSum(amounts), QInt(Len(amounts)))
        diff(a)   == QAbs(QSub(a, mean_amt))
        consistent == Cardinality({i \in 1..Len(amounts) :
                                      \/ QLe(diff(amounts[i]), absolute_tol)
                                      \/ QLe(QDiv(diff(amounts[i]), mean_amt), relative_tol)})
    IN  IF Len(amounts) < 2 THEN Returned(PyFloat(QZero))
        ELSE Returned(PyFloat(Q(consistent, Len(amounts))))

get_amount_consistency_score(merchant_trans) ==
    The({safe_feature(outcome) :
            outcome \in {get_amount_consistency_score_fn(merchant_trans, Q(5, 10), Q(5, 100))}})

trusted_targets == <<7, 14, 17, 28, 30, 31, 45, 60, 90, 180, 365, 380>>

\* max(interval_counts.keys(), key=...): the first interval, in the order of
\* first occurrence, among those that occur most often
ModeInterval(intervals) ==
    LET count(v) == Cardinality({i \in 1..Len(intervals) : intervals[i] = v})
        k == CHOOSE i \in 1..Len(intervals) :
                /\ \A j \in 1..Len(intervals) : count(intervals[j]) <= count(intervals[i])
                /\ \A j \in 1..(i - 1) : count(intervals[j]) < count(intervals[i])
    IN  intervals[k]

\* the body without the test of the mode against trusted_targets
interval_consistency_of_any_mode(intervals, tolerance_days) ==
    LET mode_interval == ModeInterval(intervals)
        consistent == Cardinality({i \in 1..Len(intervals) :
                                      Abs(intervals[i] - mode_interval) <= tolerance_days})
    IN  IF intervals = <<>> THEN QZero
        ELSE Q(consistent, Len(intervals))

\* the body of get_interval_consistency_score once the intervals are known
interval_consistency_of(intervals, tolerance_days) ==
    LET mode_interval == ModeInterval(intervals)
        consistent == Cardinality({i \in 1..Len(intervals) :
                                      Abs(intervals[i] - mode_interval) <= tolerance_days})
    IN  IF intervals = <<>> THEN QZero
        ELSE IF ~\E k \in 1..Len(trusted_targets) :
                    Abs(mode_interval - trusted_targets[k]) <= tolerance_days THEN QZero
        ELSE Q(consistent, Len(intervals))

\* the body of features_laurels with a majority of the intervals as its test
laurels_interval_consistency_of_majority(intervals, tolerance_days) ==
    LET mode_interval == ModeInterval(intervals)
        consistent == Cardinality({i \in 1..Len(intervals) :
                                      Abs(intervals[i] - mode_interval) <= tolerance_days})
    IN  IF intervals = <<>> THEN 0
        ELSE IF ~\E k \in 1..Len(trusted_targets) :
                    Abs(mode_interval - trusted_targets[k]) <= tolerance_days THEN 0
        ELSE IF 2 * consistent >= Len(intervals) THEN 1 ELSE 0

\* the body of features_laurels.get_interval_consistency_score once the
\* intervals are known: 1 if consistency_ratio == 1.0 else 0
laurels_interval_consistency_of(intervals, tolerance_days) ==
    LET mode_interval == ModeInterval(intervals)
        consistent == Cardinality({i \in 1..Len(intervals) :
                                      Abs(intervals[i] - mode_interval) <= tolerance_days})
        consistency_ratio == Q(consistent, Len(intervals))
    IN  IF intervals = <<>> THEN 0
        ELSE IF ~\E k \in 1..Len(trusted_targets) :
                    Abs(mode_interval - trusted_targets[k]) <= tolerance_days THEN 0
        ELSE IF consistency_ratio = QOne THEN 1 ELSE 0

\* the function under @safe_feature
get_interval_consistency_score_fn(intervals, tolerance_days) ==
    IF intervals.exc # "none" THEN [exc |-> intervals.exc, v |-> PyNone]
    ELSE Returned(PyFloat(interval_consistency_of(intervals.v, tolerance_days)))

get_interval_consistency_score(merchant_trans) ==
    The({safe_feature(outcome) :
            outcome \in {get_interval_consistency_score_fn(intervals, 5) :
                             intervals \in {_calc_intervals(merchant_trans)}}})

\* 1.0 if flag else 0.0
Score(flag) == IF IsZero(flag.v) THEN QZero ELSE QOne

weights == <<QZero, QZero, Q(4, 10), QZero>>

\* the function under @safe_feature
get_combined_recurrence_score_fn(vendor, non_recurring_vendor, amount_score, interval_score) ==
    LET score == QAdd(QAdd(QMul(weights[1], Score(vendor)), QMul(weights[2], Score(non_recurring_vendor))),
                      QAdd(QMul(weights[3], amount_score.v), QMul(weights[4], interval_score.v)))
    IN  Returned(PyFloat(QMax(QZero, QMin(QOne, score))))

get_combined_recurrence_score(t, merchant_trans) ==
    The({safe_feature(outcome) :
            outcome \in {get_combined_recurrence_score_fn(vendor, non_recurring_vendor,
                                                          amount_score, interval_score) :
                             vendor \in {get_is_known_recurring_vendor(t).v},
                             non_recurring_vendor \in {get_is_known_non_recurring_vendor(t).v},
                             amount_score \in {get_amount_consistency_score(merchant_trans).v},
                             interval_score \in {get_interval_consistency_score(merchant_trans).v}}})

\* the function under @safe_feature_bool
get_is_recurring_same_amount_specific_intervals_fn(merchant_trans, intervals) ==
    LET amounts == Amounts(merchant_trans)
        amounts_same == \A i \in 1..Len(amounts) : QLt(QAbs(QSub(amounts[i], amounts[1])), Q(5, 100))
    IN  IF Len(merchant_trans) < 2 THEN Returned(PyBool(FALSE))
        ELSE IF ~amounts_same THEN Returned(PyBool(FALSE))
        ELSE IF intervals.exc # "none" THEN [exc |-> intervals.exc, v |-> PyNone]
        ELSE Returned(PyBool(\E i \in 1..Len(intervals.v) :
                                 \/ intervals.v[i] \in 27..45
                                 \/ intervals.v[i] \in 379..381
                                 \/ intervals.v[i] \in 15..17))

get_is_recurring_same_amount_specific_intervals(merchant_trans) ==
    The({safe_feature_bool(outcome) :
            outcome \in {get_is_recurring_same_amount_specific_intervals_fn(merchant_trans, intervals) :
                             intervals \in {_calc_intervals(merchant_trans)}}})

\* datetime.fromisoformat(s) of a str: the canonical YYYY-MM-DD text only
fromisoformat(s) ==
    IF Len(s) = 10 /\ Len(split(s, "-")) = 3 /\ Len(split(s, "-")[2]) = 2 THEN strptime(s, "-")
    ELSE [exc |-> "ValueError", v |-> None]

\* int(dt.timestamp()) of a midnight, for a process whose local time is UTC
timestamp(dt) == DaysBetween(dt, <<1970, 1, 1>>) * 86400

\* timestamps after the loop "for t in merchant_trans: d = t.date" and the if
\* statement that follows it: the if is not part of the loop body, so it sees
\* the d of the last transaction only and appends once
cluster_timestamps(merchant_trans) ==
    LET d  == merchant_trans[Len(merchant_trans)].date
        dt == fromisoformat(d)
    IN  IF dt.exc # "none" THEN [exc |-> "ValueError", v |-> <<>>]
        ELSE Returned(<<timestamp(dt.v)>>)

\* the function under @safe_feature.  timestamps holds one entry and
\* np.fft.rfftfreq(1) is [0.], hence dominant_freq == 0 and 0.0 is returned
get_interval_cluster_score_fn(merchant_trans, intervals) ==
    IF intervals.exc # "none" THEN [exc |-> intervals.exc, v |-> PyNone]
    ELSE IF Len(intervals.v) < 2 THEN Returned(PyFloat(QZero))
    ELSE IF cluster_timestamps(merchant_trans).exc # "none"
         THEN [exc |-> "ValueError", v |-> PyNone]
    ELSE Returned(PyFloat(QZero))

get_interval_cluster_score(merchant_trans) ==
    The({safe_feature(outcome) :
            outcome \in {get_interval_cluster_score_fn(merchant_trans, intervals) :
                             intervals \in {_calc_intervals(merchant_trans)}}})

\* sorted(dates) for a list of dates
SortedDates(dates) ==
    [k \in 1..Len(dates) |->
        CHOOSE d \in Range(dates) :
            /\ Cardinality({i \in 1..Len(dates) : Ordinal(dates[i]) < Ordinal(d)}) < k
            /\ k <= Cardinality({i \in 1..Len(dates) : Ordinal(dates[i]) <= Ordinal(d)})]

\* one round of the loop of _calc_month_intervals, for date1 <= date2
month_interval(date1, date2) ==
    LET total_months == (date2[1] - date1[1]) * 12 + (date2[2] - date1[2])
        day_diff     == date2[3] - date1[3]
        next_month   == (date1[2] % 12) + 1
        next_year    == date1[1] + (date1[2] \div 12)
        last_day     == <<next_year, next_month, DaysInMonth(next_year, next_month)>>
        days_in_month == DaysBetween(last_day, <<date1[1], date1[2], 1>>) + 1
        remaining_days == DaysBetween(date2, <<date1[1], date1[2], date2[3]>>)
        \* the while loop stops at date1.day, or at day 29, which
        \* replace(day=29) reaches only in a month that has it
        stop_day     == Min(date1[3], 29)
        next_month_date == <<next_year, next_month, stop_day>>
        months == IF day_diff < 0
                  THEN QAdd(QInt(total_months - 1), Q(remaining_days, days_in_month))
                  ELSE IF day_diff > 0
                  THEN QAdd(QInt(total_months), Q(DaysBetween(date2, next_month_date), days_in_month))
                  ELSE QInt(total_months)
    IN  IF day_diff > 0 /\ stop_day > DaysInMonth(next_year, next_month)
        THEN [exc |-> "ValueError", v |-> QZero]
        ELSE Returned(IF QLt(months, Q(1, 10)) THEN QZero ELSE months)

\* features_original._calc_month_intervals
_calc_month_intervals(merchant_trans) ==
    LET parsed == ParseDateOutcomes(merchant_trans)
        dates  == SortedDates([i \in 1..Len(parsed) |-> parsed[i].v])
        rounds == [i \in 1..(Len(dates) - 1) |-> month_interval(dates[i], dates[i + 1])]
    IN  IF \E i \in 1..Len(parsed) : parsed[i].exc # "none" THEN [exc |-> "ValueError", v |-> <<>>]
        ELSE IF Len(dates) < 2 THEN Returned(<<>>)
        ELSE IF \E i \in 1..Len(rounds) : rounds[i].exc # "none" THEN [exc |-> "ValueError", v |-> <<>>]
        ELSE Returned([i \in 1..Len(rounds) |-> rounds[i].v])

QMaxOf(values) == CHOOSE x \in Range(values) : \A y \in Range(values) : QLe(y, x)

QMinOf(values) == CHOOSE x \in Range(values) : \A y \in Range(values) : QLe(x, y)

\* the function under @safe_feature: its own except clause returns 0.0
detect_monthly_with_missing_entries_fn(merchant_trans, intervals) ==
    LET amounts  == Amounts(merchant_trans)
        mean_amt == QDiv(QSum(amounts), QInt(Len(amounts)))
    IN  IF Len(merchant_trans) < 2 THEN Returned(PyFloat(QZero))
        ELSE IF intervals.exc # "none" THEN Returned(PyFloat(QZero))
        ELSE IF intervals.v = <<>> THEN Returned(PyFloat(QZero))
        ELSE IF ~\A i \in 1..Len(intervals.v) :
                    QLe(Q(8, 10), intervals.v[i]) /\ QLe(intervals.v[i], Q(12, 10))
             THEN Returned(PyFloat(QZero))
        ELSE IF /\ QLt(QZero, mean_amt)
                /\ QLt(Q(5, 100), QDiv(QSub(QMaxOf(amounts), QMinOf(amounts)), mean_amt))
             THEN Returned(PyFloat(QZero))
        ELSE Returned(PyFloat(QOne))

detect_monthly_with_missing_entries(merchant_trans) ==
    The({safe_feature(outcome) :
            outcome \in {detect_monthly_with_missing_entries_fn(merchant_trans, intervals) :
                             intervals \in {_calc_month_intervals(merchant_trans)}}})

\* the keys of the dict literal of get_new_features, in its order
NewFeatureKeys ==
    <<"is_amazon_prime",
      "is_known_recurring_vendor",
      "is_known_non_recurring_vendor",
      "amount_consistency_score",
      "interval_consistency_score",
      "combined_recurrence_score",
      "same_amount_count",
      "is_albert_99_recurring",
      "is_recurring_same_amount_specific_intervals",
      "interval_cluster_score",
      "monthly_with_missing_entries">>

\* the values of the dict literal of get_new_features, in the order it
\* evaluates them
new_features_dict(t, merchant_trans) ==
    <<get_is_amazon_prime(t),
      get_is_known_recurring_vendor(t).v,
      get_is_known_non_recurring_vendor(t).v,
      get_amount_consistency_score(merchant_trans).v,
      get_interval_consistency_score(merchant_trans).v,
      get_combined_recurrence_score(t, merchant_trans).v,
      get_same_amount_count(merchant_trans).v,
      get_is_albert_99_recurring(t).v,
      get_is_recurring_same_amount_specific_intervals(merchant_trans).v,
      get_interval_cluster_score(merchant_trans).v,
      detect_monthly_with_missing_entries(merchant_trans).v>>

\* a dict that keeps the truthy values only
NewFeaturesOutcome_truthy(values) ==
    Returned([k \in {NewFeatureKeys[i] : i \in {j \in 1..Len(values) : ~IsZero(bool(values[j]).v)}} |->
                 values[CHOOSE i \in 1..Len(NewFeatureKeys) : NewFeatureKeys[i] = k]])

\* the dict that get_new_features returns
NewFeaturesOutcome(values) ==
    Returned(Dict(NewFeatureKeys, values))

\* features_original.get_new_features(transaction, all_transactions)
get_new_features(t, txs) ==
    The({NewFeaturesOutcome(values) :
            values \in {new_features_dict(t, merchant_trans) : merchant_trans \in {MerchantTrans(t, txs)}}})

\* the arguments of the utils.parse_date calls of one pass over merchant_trans
\* that return: a call that raises ends the pass and stores nothing
ParseDatePass(merchant_trans) ==
    LET parsed == ParseDateOutcomes(merchant_trans)
        n == Cardinality({i \in 1..Len(parsed) : \A j \in 1..i : parsed[j].exc = "none"})
    IN  [i \in 1..n |-> merchant_trans[i].date]

\* those of get_new_features, in order: entries 5, 6 and 10 always make a
\* pass, entry 9 after its amount test, entry 11 for two or more transactions
NewFeaturesParseCalls(merchant_trans) ==
    LET pass == ParseDatePass(merchant_trans)
        amounts == Amounts(merchant_trans)
        entry9 == /\ Len(merchant_trans) >= 2
                  /\ \A i \in 1..Len(amounts) : QLt(QAbs(QSub(amounts[i], amounts[1])), Q(5, 100))
    IN  (pass \o pass \o (IF entry9 THEN pass ELSE <<>>))
        \o (pass \o (IF Len(merchant_trans) >= 2 THEN pass ELSE <<>>))

-----------------------------------------------------------------------------
(* The cache of _parse_date, and get_features as a caller sees it          *)

\* @lru_cache(maxsize=1024)
maxsize == 1024

\* one call of _parse_date(key): cache lists the cached arguments, the least
\* recently used first; the cached value of a key is _parse_date(key)
lru_cache_call(entries, key) ==
    LET others == SelectSeq(entries, LAMBDA k : k # key)
    IN  IF key \in Range(entries) THEN others \o <<key>>
        ELSE IF Len(entries) >= maxsize THEN Tail(entries) \o <<key>>
        ELSE entries \o <<key>>

\* the cache after the calls _parse_date(keys[1]), ..., in closed form: an LRU
\* cache holds the maxsize most recently used distinct arguments, in the
\* order of their last use
lru_cache_calls(entries, keys) ==
    LET used    == entries \o keys
        last    == {i \in 1..Len(used) : \A j \in (i + 1)..Len(used) : used[j] # used[i]}
        nth(k)  == CHOOSE i \in last : Cardinality({j \in last : j < i}) = k - 1
        recent  == [k \in 1..Cardinality(last) |-> used[nth(k)]]
    IN  SubSeq(recent, Max(1, Len(recent) - maxsize + 1), Len(recent))

TxDates(txs) == [i \in 1..Len(txs) |-> txs[i].date]

\* the arguments of the _parse_date calls of one get_n_transactions_days_apart
DaysApartParseCalls(t, txs) ==
    IF _parse_date(t.date) = None THEN <<t.date>> ELSE <<t.date>> \o TxDates(txs)

\* the arguments of the _parse_date calls that entry number i of features_dict makes
EntryParseCalls(t, txs, merchant_dates, i) ==
    IF i = 4 THEN (IF Len(merchant_dates) > 1 THEN merchant_dates ELSE <<>>)
    ELSE IF i \in {7, 22, 23} THEN merchant_dates
    ELSE IF i \in {14, 15} THEN <<t.date>>
    ELSE IF i \in 30..37 THEN DaysApartParseCalls(t, txs)
    ELSE <<>>

\* those of entries 1..last in order: entries 30..37 each make the calls of
\* one get_n_transactions_days_apart
EntriesParseCalls(t, txs, merchant_dates, last) ==
    LET upto(i) == IF i <= last THEN EntryParseCalls(t, txs, merchant_dates, i) ELSE <<>>
        apart   == DaysApartParseCalls(t, txs)
        n_apart == Cardinality({i \in 30..37 : i <= last})
    IN  (upto(4) \o upto(7) \o upto(14)) \o (upto(15) \o upto(22) \o upto(23))
        \o [n \in 1..(n_apart * Len(apart)) |-> apart[((n - 1) % Len(apart)) + 1]]

\* the arguments of the _parse_date calls of get_features, in order: those of
\* lines 629-630, then those of the entries up to entry number at, the one
\* that raises (0: none raises)
ParseCallsOf(t, txs, merchant_dates, at) ==
    merchant_dates
    \o EntriesParseCalls(t, txs, merchant_dates, IF at = 0 THEN Len(FeatureKeys) ELSE at)

ParseCalls(t, txs, at) == ParseCallsOf(t, txs, TxDates(MerchantTrans(t, txs)), at)

MaxNow == 1         \* the clock readings are 0..MaxNow days after ClockStart
MaxCalls == 2       \* get_features is called at most this often in a behaviour

Att == <<"A", "T", "&", "T">>

Date20250230 == <<"2", "0", "2", "5", "-", "0", "2", "-", "3", "0">>

\* the transactions a batch is drawn from
FeatureTxs ==
    {Tx("1", Netflix, Cents(1677), isoformat(2025, 1, 1)),
     Tx("1", Netflix, Cents(1677), isoformat(2025, 2, 1)),
     Tx("1", Netflix, Cents(-1), isoformat(2025, 1, 1)),
     Tx("1", Netflix, Cents(1677), InvalidDate),
     Tx("1", Att, Cents(1677), Date20250230)}

\* the dates other callers parse
OtherDates == {isoformat(2025, 1, 1)}

InitFeatures ==
    /\ transaction \in FeatureTxs
    /\ all_transactions \in BSeq(FeatureTxs, MaxTx)
    /\ now = 0
    /\ cache = <<>>
    /\ parse_date_cache = <<>>
    /\ call = NoCall
    /\ result = NoResult
    /\ prev_result = NoResult

\* get_features returning or raising with the outcomes entries
GetFeaturesWith(entries) ==
    /\ call' = [fn |-> "get_features", n |-> IF call = NoCall THEN 1 ELSE call.n + 1]
    /\ prev_result' = result
    /\ result' = FeaturesOutcome(entries)
    /\ cache' = lru_cache_calls(cache, ParseCalls(transaction, all_transactions, FirstRaise(entries)))
    /\ all_transactions' = ListsAfterSort(transaction, all_transactions).all_transactions
    /\ UNCHANGED <<transaction, now, parse_date_cache>>

\* get_features(transaction, all_transactions)
GetFeatures ==
    /\ call = NoCall \/ (call.fn = "get_features" /\ call.n < MaxCalls)
    /\ \E entries \in {FeatureEntries(transaction, all_transactions, now)} : GetFeaturesWith(entries)

\* a day passes
Tick ==
    /\ now < MaxNow
    /\ now' = now + 1
    /\ UNCHANGED <<transaction, all_transactions, cache, parse_date_cache, call, result, prev_result>>

\* between two calls of get_features some other caller parses a date
CallParseDate ==
    \E date_string \in OtherDates :
        /\ call.fn = "get_features" /\ call.n < MaxCalls
        /\ cache' = lru_cache_call(cache, date_string)
        /\ UNCHANGED <<transaction, all_transactions, now, parse_date_cache, call, result, prev_result>>

\* features_original.get_new_features(transaction, all_transactions)
GetNewFeatures ==
    /\ call = NoCall \/ call.fn = "get_features"
    /\ call' = [fn |-> "get_new_features", after |-> call.fn]
    /\ prev_result' = result
    /\ result' = get_new_features(transaction, all_transactions)
    /\ \E merchant_trans \in {MerchantTrans(transaction, all_transactions)} :
           parse_date_cache' = lru_cache_calls(parse_date_cache, NewFeaturesParseCalls(merchant_trans))
    /\ all_transactions' = ListsAfterSort(transaction, all_transactions).all_transactions
    /\ UNCHANGED <<transaction, now, cache>>

NextFeatures == GetFeatures \/ Tick \/ CallParseDate \/ GetNewFeatures

SpecFeatures == InitFeatures /\ [][NextFeatures]_vars

IsGetFeatures == call.fn = "get_features"

HasMalformedDate(txs) == \E i \in 1..Len(txs) : _parse_date(txs[i].date) = None

\* C1: when some transaction of all_transactions has a date that is no valid
\* YYYY-MM-DD date, get_features still returns the complete feature mapping.
C1_MalformedDatesNeverRaise ==
    (IsGetFeatures /\ HasMalformedDate(all_transactions)) =>
        (result.exc = "none" /\ DOMAIN result.v = Range(FeatureKeys))

\* C4: a second call of get_features with the same transaction and the same
\* all_transactions gives the result of the first, whatever the time of the
\* calls and whatever was parsed in between.
C4_SameInputsSameFeatures ==
    (IsGetFeatures /\ call.n >= 2) => result = prev_result

\* the (user, merchant) history of the transaction is the transaction alone
IsSingleHistory ==
    /\ _parse_date(transaction.date) # None
    /\ MerchantTrans(transaction, all_transactions) = <<transaction>>

\* C9: for a transaction with a valid date that is alone in its history,
\* get_features gives is_single_transaction = 1, interval_variability = 1.0,
\* day_consistency_score = 0.5 and recurrence_likelihood = 0.2, for every amount.
C9_SingleTransactionScores ==
    (IsGetFeatures /\ IsSingleHistory) =>
        /\ result.exc = "none"
        /\ result.v["is_single_transaction"] = QOne
        /\ result.v["interval_variability"] = QOne
        /\ result.v["day_consistency_score"] = Q(1, 2)
        /\ result.v["recurrence_likelihood"] = Q(1, 5)

\* C5: whenever get_features (features.py) or get_new_features
\* (features_original.py) returns, the keys of the returned mapping are the
\* keys of its dict literal, 41 and 11 of them, whatever the transaction, the
\* size of its merchant history and the contents of all_transactions.
C5_KeySetIsFixed ==
    /\ (call.fn = "get_features" /\ result.exc = "none") =>
           (DOMAIN result.v = Range(FeatureKeys) /\ Cardinality(DOMAIN result.v) = 41)
    /\ call.fn = "get_new_features" =>
           /\ result.exc = "none"
           /\ DOMAIN result.v = Range(NewFeatureKeys) /\ Cardinality(DOMAIN result.v) = 11

\* both functions have returned for a merchant history of MaxTx transactions,
\* get_new_features with falsy values among its entries
C5_Witness ==
    /\ call.fn = "get_new_features" /\ call.after = "get_features"
    /\ Len(MerchantTrans(transaction, all_transactions)) = MaxTx
    /\ prev_result.exc = "none" /\ Cardinality(DOMAIN prev_result.v) = 41
    /\ result.exc = "none" /\ Cardinality(DOMAIN result.v) = 11
    /\ result.v["is_amazon_prime"] = PyBool(FALSE)

\* C27: get_features and get_new_features leave their inputs as they were:
\* after the call all_transactions holds the same transactions in the same
\* order, and the subject transaction is the same.
C27_InputsAreLeftUnchanged ==
    [][(call' # call /\ call'.fn \in {"get_features", "get_new_features"}) =>
          (all_transactions' = all_transactions /\ transaction' = transaction)]_vars

\* both functions have returned for a list that names two transactions of the
\* subject's merchant with the later date first: the sorted bucket differs
\* from the list
C27_Witness ==
    /\ call.fn = "get_new_features" /\ call.after = "get_features"
    /\ Len(all_transactions) = 2
    /\ Len(MerchantTrans(transaction, all_transactions)) = 2
    /\ MerchantTrans(transaction, all_transactions) # all_transactions
    /\ StrLt(all_transactions[2].date, all_transactions[1].date)

-----------------------------------------------------------------------------
(* The features of one stats dict: features.py lines 200-249, 326-338      *)

\* the interval means of the scores above, and one below zero
StatMeans == IntervalMeans \cup {QInt(-7), QInt(8)}

IntervalStats == [mean : StatMeans, std : IntervalStds]

InitStats ==
    /\ transaction = Tx("1", Netflix, Cents(1677), isoformat(2025, 1, 1))
    /\ all_transactions = <<>>
    /\ now = 0
    /\ cache = <<>>
    /\ parse_date_cache = <<>>
    /\ call = NoCall
    /\ result = NoResult
    /\ prev_result = NoResult

\* a call of the feature fn on the dict stats, with its outcome
StatsCall(fn, stats, outcome) ==
    /\ call = NoCall
    /\ call' = [fn |-> fn, stats |-> stats]
    /\ result' = outcome
    /\ UNCHANGED <<transaction, all_transactions, now, cache, parse_date_cache, prev_result>>

CallMerchantIntervalStd ==
    \E interval_stats \in IntervalStats :
        StatsCall("merchant_interval_std_feature", interval_stats,
                  Returned(merchant_interval_std_feature(interval_stats)))

CallMerchantIntervalMean ==
    \E interval_stats \in IntervalStats :
        StatsCall("merchant_interval_mean_feature", interval_stats,
                  Returned(merchant_interval_mean_feature(interval_stats)))

CallMerchantAmountStd ==
    \E amount_stats \in AmountStats :
        StatsCall("merchant_amount_std_feature", amount_stats, merchant_amount_std_feature(amount_stats))

CallIntervalVariability ==
    \E interval_stats \in IntervalStats :
        StatsCall("interval_variability_feature", interval_stats,
                  interval_variability_feature(interval_stats))

CallIsNearPeriodic ==
    \E interval_stats \in IntervalStats :
        StatsCall("is_near_periodic_interval_feature", interval_stats,
                  is_near_periodic_interval_feature(interval_stats))

NextStats ==
    \/ CallMerchantIntervalStd
    \/ CallMerchantIntervalMean
    \/ CallMerchantAmountStd
    \/ CallIntervalVariability
    \/ CallIsNearPeriodic

SpecStats == InitStats /\ [][NextStats]_vars

\* C11: merchant_interval_std_feature returns the default 30.0 and
\* merchant_interval_mean_feature the default 60.0 when the interval mean is
\* 0, and for every mean above 0 they return the std and the mean they were
\* given.
C11_DefaultsOnlyForMeanZero ==
    /\ call.fn = "merchant_interval_std_feature" =>
           /\ IsZero(call.stats.mean) => result.v = QInt(30)
           /\ QLt(QZero, call.stats.mean) => result.v = call.stats.std
    /\ call.fn = "merchant_interval_mean_feature" =>
           /\ IsZero(call.stats.mean) => result.v = QInt(60)
           /\ QLt(QZero, call.stats.mean) => result.v = call.stats.mean

IsRatioCall == call.fn \in {"merchant_amount_std_feature", "interval_variability_feature"}

PeriodScore(mean, target, tolerance) ==
    QSub(QOne, QMin(QDiv(QAbs(QSub(mean, QInt(target))), QInt(tolerance)), QOne))

\* C13: is_near_periodic_interval_feature returns 0 when the interval std is
\* 5 or more or the mean is 0; otherwise the largest of
\* 1 - min(|mean - target| / tol, 1) over (7, 2), (30, 3), (365, 10); the
\* result lies in [0, 1].
C13_NearPeriodicIsBestTargetScore ==
    call.fn = "is_near_periodic_interval_feature" =>
        /\ result.exc = "none"
        /\ QLe(QZero, result.v) /\ QLe(result.v, QOne)
        /\ IF QLe(QInt(5), call.stats.std) \/ IsZero(call.stats.mean) THEN result.v = QZero
           ELSE result.v = QMax(PeriodScore(call.stats.mean, 7, 2),
                                QMax(PeriodScore(call.stats.mean, 30, 3),
                                     PeriodScore(call.stats.mean, 365, 10)))

\* a mean of 31 days with a std below 5 scores 2/3, by the target 30
C13_Witness ==
    /\ call.fn = "is_near_periodic_interval_feature"
    /\ call.stats.mean = QInt(31) /\ QLt(call.stats.std, QInt(5))
    /\ result = Returned(Q(2, 3))

-----------------------------------------------------------------------------
(* The scorers of features_original.py, called one at a time               *)

Albert == <<"A", "L", "B", "E", "R", "T">>

AlBert == <<"A", "l", " ", "b", "e", "r", "t">>

\* the amounts of test_get_is_albert_99_recurring, their negatives and
\* amounts around the tolerance 0.001
AlbertAmounts ==
    {Cents(199), Cents(150), Cents(99), Cents(200), Cents(-199), Cents(-101),
     Q(1989, 1000), Q(19895, 10000)}

AlbertTxs == {Tx("user1", nm, a, isoformat(2023, 1, 1)) : nm \in {Albert, AlBert, Netflix}, a \in AlbertAmounts}

\* the amounts of test_get_amount_consistency_score, a pair that only the
\* relative tolerance accepts, and amounts that are not positive
HistoryAmounts ==
    {Cents(1000), Cents(1040), Cents(1100), Cents(10000), Cents(10200), Cents(0), Cents(-1000)}

\* histories that differ in their amounts
AmountHistories ==
    BSeq({Tx("user1", Name1, a, isoformat(2023, 1, 1)) : a \in HistoryAmounts}, MaxHistory)

\* dates 9, 31, 59 and 131 days after 2023-01-01, and a malformed one
GapDates ==
    {isoformat(2023, 1, 1), isoformat(2023, 1, 10), isoformat(2023, 2, 1), isoformat(2023, 3, 1),
     isoformat(2023, 5, 12), InvalidDate}

\* histories that differ in their dates
DateHistories == BSeq({Tx("user1", Name1, Cents(1000), d) : d \in GapDates}, MaxHistory)

InitOriginal ==
    /\ \/ transaction \in AlbertTxs /\ all_transactions = <<>>
       \/ /\ transaction = Tx("user1", Name1, Cents(1000), isoformat(2023, 1, 1))
          /\ all_transactions \in (AmountHistories \cup DateHistories) \ {<<>>}
    /\ now = 0
    /\ cache = <<>>
    /\ parse_date_cache = <<>>
    /\ call = NoCall
    /\ result = NoResult
    /\ prev_result = NoResult

\* get_is_albert_99_recurring(transaction)
CallIsAlbert99Recurring ==
    /\ call = NoCall
    /\ call' = [fn |-> "get_is_albert_99_recurring"]
    /\ result' = get_is_albert_99_recurring(transaction)
    /\ UNCHANGED <<transaction, all_transactions, now, cache, parse_date_cache, prev_result>>

\* get_amount_consistency_score(merchant_trans), merchant_trans being all_transactions
CallAmountConsistencyScore ==
    /\ call = NoCall
    /\ call' = [fn |-> "get_amount_consistency_score"]
    /\ result' = get_amount_consistency_score(all_transactions)
    /\ UNCHANGED <<transaction, all_transactions, now, cache, parse_date_cache, prev_result>>

\* get_interval_consistency_score(merchant_trans), merchant_trans being
\* all_transactions; _calc_intervals goes through the lru_cache of parse_date
CallIntervalConsistencyScore ==
    /\ call = NoCall
    /\ call' = [fn |-> "get_interval_consistency_score"]
    /\ result' = get_interval_consistency_score(all_transactions)
    /\ parse_date_cache' = lru_cache_calls(parse_date_cache, ParseDatePass(all_transactions))
    /\ UNCHANGED <<transaction, all_transactions, now, cache, prev_result>>

\* get_interval_cluster_score(merchant_trans), merchant_trans being
\* all_transactions; the call record keeps the timestamps list the function
\* hands to np.array (none before the test len(intervals) < 2 is passed)
CallIntervalClusterScore ==
    /\ call = NoCall
    /\ \E intervals \in {_calc_intervals(all_transactions)} :
          call' = [fn |-> "get_interval_cluster_score",
                   timestamps |-> IF intervals.exc # "none" \/ Len(intervals.v) < 2
                                  THEN Returned(<<>>)
                                  ELSE cluster_timestamps(all_transactions)]
    /\ result' = get_interval_cluster_score(all_transactions)
    /\ parse_date_cache' = lru_cache_calls(parse_date_cache, ParseDatePass(all_transactions))
    /\ UNCHANGED <<transaction, all_transactions, now, cache, prev_result>>

\* amounts of at most 11.00 either way: the quotients of get_same_amount_count
\* on them fit the integers of the model
SmallAmounts(txs) == \A i \in 1..Len(txs) : QLe(QAbs(txs[i].amount), QInt(11))

\* get_same_amount_count(merchant_trans), merchant_trans being all_transactions
CallSameAmountCount ==
    /\ call = NoCall
    /\ SmallAmounts(all_transactions)
    /\ call' = [fn |-> "get_same_amount_count"]
    /\ result' = get_same_amount_count(all_transactions)
    /\ UNCHANGED <<transaction, all_transactions, now, cache, parse_date_cache, prev_result>>

NextOriginal ==
    \/ CallSameAmountCount
    \/ CallIsAlbert99Recurring
    \/ CallAmountConsistencyScore
    \/ CallIntervalConsistencyScore
    \/ CallIntervalClusterScore

SpecOriginal == InitOriginal /\ [][NextOriginal]_vars

\* C22: get_interval_cluster_score builds one Unix timestamp for every
\* transaction of the history: for n >= 3 transactions with well-formed dates
\* the list handed to the frequency analysis has n entries.
C22_OneTimestampPerTransaction ==
    (/\ call.fn = "get_interval_cluster_score"
     /\ Len(all_transactions) >= 3
     /\ \A i \in 1..Len(all_transactions) : fromisoformat(all_transactions[i].date).exc = "none")
        => /\ call.timestamps.exc = "none"
           /\ Len(call.timestamps.v) = Len(all_transactions)

\* C25: get_same_amount_count returns 0 for an empty history and otherwise
\* the number of transactions whose amount is within 1% of the amount of the
\* first transaction, whether that amount is positive or negative: a
\* transaction more than 1% away is not counted.
C25_SameAmountCountIsWithinOnePercent ==
    call.fn = "get_same_amount_count" =>
        LET amounts == Amounts(all_transactions)
            near == {i \in 1..Len(amounts) :
                        QLe(QMul(QInt(100), QAbs(QSub(amounts[i], amounts[1]))), QAbs(amounts[1]))}
        IN  /\ result.exc = "none"
            /\ result.v.v = QInt(IF amounts = <<>> THEN 0 ELSE Cardinality(near))

\* the amounts above 0 of a history, in its order
PositiveAmounts(txs) == SelectSeq(Amounts(txs), LAMBDA a : a[1] > 0)

\* the positive amounts of txs within 0.5, or within 5 %, of their mean
NearMeanAmounts(txs) ==
    LET amounts == PositiveAmounts(txs)
        mean    == QDiv(QSum(amounts), QInt(Len(amounts)))
    IN  {i \in 1..Len(amounts) :
            \/ QLe(QAbs(QSub(amounts[i], mean)), Q(1, 2))
            \/ QLe(QAbs(QSub(amounts[i], mean)), QMul(Q(5, 100), mean))}

\* C14: get_amount_consistency_score returns 0.0 for a history with fewer
\* than 2 positive amounts, and otherwise the fraction of the positive
\* amounts within absolute_tol 0.5, or within relative_tol 5 %, of the mean of
\* the positive amounts; the value lies in [0, 1].
C14_AmountConsistencyIsFractionNearMean ==
    call.fn = "get_amount_consistency_score" =>
        /\ result.exc = "none" /\ result.v.type = "float"
        /\ QLe(QZero, result.v.v) /\ QLe(result.v.v, QOne)
        /\ IF Len(PositiveAmounts(all_transactions)) < 2 THEN result.v.v = QZero
           ELSE result.v.v = Q(Cardinality(NearMeanAmounts(all_transactions)),
                               Len(PositiveAmounts(all_transactions)))

\* the history 100.00, 102.00, -10.00 has two positive amounts, both within
\* 5 % of their mean 101.00 and neither within 0.5 of it
C14_Witness ==
    /\ call.fn = "get_amount_consistency_score"
    /\ Amounts(all_transactions) = <<Cents(10000), Cents(10200), Cents(-1000)>>
    /\ result = Returned(PyFloat(QOne))

\* the day gaps of a history whose dates all parse, in date order; none when
\* a date is malformed
DayGaps(txs) ==
    LET days == SortedInts([i \in 1..Len(txs) |-> Ordinal(_parse_date(txs[i].date))])
    IN  IF \E i \in 1..Len(txs) : _parse_date(txs[i].date) = None THEN <<>>
        ELSE [i \in 1..(Len(txs) - 1) |-> days[i + 1] - days[i]]

\* the gaps that occur most often
ModalGaps(gaps) ==
    LET count(g) == Cardinality({i \in 1..Len(gaps) : gaps[i] = g})
    IN  {g \in Range(gaps) : \A h \in Range(gaps) : count(h) <= count(g)}

TrustedTargets == {7, 14, 17, 28, 30, 31, 45, 60, 90, 180, 365, 380}

FractionalPart(a) == QSub(a, QInt(IF a[1] >= 0 THEN a[1] \div a[2] ELSE -((-a[1]) \div a[2])))

\* C16: get_is_albert_99_recurring returns true exactly when the normalized
\* vendor name contains "albert" and the fractional part of the amount, in
\* exact decimal arithmetic, is within 0.001 of 0.99, and false otherwise.
C16_AlbertFeeIffNameAndCents ==
    call.fn = "get_is_albert_99_recurring" =>
        /\ result.exc = "none" /\ result.v.type = "bool"
        /\ ~IsZero(result.v.v) <=>
               /\ \E i \in 1..(Len(_normalize_name(transaction.name)) - 5) :
                      SubSeq(_normalize_name(transaction.name), i, i + 5) = <<"a", "l", "b", "e", "r", "t">>
               /\ QLt(QAbs(QSub(FractionalPart(transaction.amount), Q(99, 100))), Q(1, 1000))

\* ALBERT with 1.99 is true
C16_Witness ==
    /\ call.fn = "get_is_albert_99_recurring"
    /\ transaction.name = Albert /\ transaction.amount = Cents(199)
    /\ result = Returned(PyBool(TRUE))

-----------------------------------------------------------------------------
(* get_ends_in_99 of features.py and of features_original.py               *)

MaxCents == 2000    \* the largest amount, in cents

\* the amounts, in cents: every one up to MaxCents, below zero too, and 100.00
CentAmounts == ((-MaxCents)..MaxCents) \cup {10000}

InitEndsIn99 ==
    /\ transaction \in {Tx("user1", Name1, Cents(c), isoformat(2023, 1, 1)) : c \in CentAmounts}
    /\ all_transactions = <<>>
    /\ now = 0
    /\ cache = <<>>
    /\ parse_date_cache = <<>>
    /\ call = NoCall
    /\ result = NoResult
    /\ prev_result = NoResult

\* features.get_ends_in_99(transaction)
CallGetEndsIn99 ==
    /\ call = NoCall
    /\ call' = [fn |-> "features.get_ends_in_99"]
    /\ result' = Returned(get_ends_in_99(transaction))
    /\ UNCHANGED <<transaction, all_transactions, now, cache, parse_date_cache, prev_result>>

\* features_original.get_ends_in_99(transaction)
CallOriginalGetEndsIn99 ==
    /\ call = NoCall
    /\ call' = [fn |-> "features_original.get_ends_in_99"]
    /\ result' = Returned(original_get_ends_in_99(transaction))
    /\ UNCHANGED <<transaction, all_transactions, now, cache, parse_date_cache, prev_result>>

NextEndsIn99 == CallGetEndsIn99 \/ CallOriginalGetEndsIn99

SpecEndsIn99 == InitEndsIn99 /\ [][NextEndsIn99]_vars

\* the cents of an amount of whole cents, 0..99
CentsOf(amount) == (Abs(amount[1]) * (100 \div amount[2])) % 100

\* C17: get_ends_in_99, of features.py and of features_original.py, returns
\* true for an amount whose cents are 99 and false for an amount whose cents
\* are not 99 (amounts of 0 and more).
C17_EndsIn99IffCentsAre99 ==
    (call.fn \in {"features.get_ends_in_99", "features_original.get_ends_in_99"}
        /\ QLe(QZero, transaction.amount)) =>
        result.v = (CentsOf(transaction.amount) = 99)

-----------------------------------------------------------------------------
(* _aggregate_transactions on its own                                      *)

\* transactions of two users and two merchants, on two dates
AggregateTxs ==
    {Tx(u, nm, Cents(1677), d) : u \in {"1", "2"}, nm \in {Netflix, Att},
                                 d \in {isoformat(2025, 2, 1), isoformat(2025, 1, 1)}}

InitAggregate ==
    /\ transaction \in AggregateTxs
    /\ all_transactions \in BSeq(AggregateTxs, MaxHistory)
    /\ now = 0
    /\ cache = <<>>
    /\ parse_date_cache = <<>>
    /\ call = NoCall
    /\ result = NoResult
    /\ prev_result = NoResult

\* _aggregate_transactions(all_transactions): the loop appends to new lists
\* and assigns to no element of its argument
CallAggregateTransactions ==
    /\ call = NoCall
    /\ call' = [fn |-> "_aggregate_transactions", transactions |-> all_transactions]
    /\ result' = Returned(_aggregate_transactions(all_transactions))
    /\ UNCHANGED <<transaction, all_transactions, now, cache, parse_date_cache, prev_result>>

\* groups.get(user_id, {}).get(merchant_name, []) on the groups returned
CallGroupGet ==
    /\ call.fn = "_aggregate_transactions"
    /\ call' = [fn |-> "groups.get", transactions |-> call.transactions]
    /\ prev_result' = result
    /\ result' = Returned(GroupGet(result.v, transaction.user_id, transaction.name))
    /\ UNCHANGED <<transaction, all_transactions, now, cache, parse_date_cache>>

NextAggregate == CallAggregateTransactions \/ CallGroupGet

SpecAggregate == InitAggregate /\ [][NextAggregate]_vars

\* C18: _aggregate_transactions partitions its input: every transaction is in
\* the bucket of its own (user_id, name) and in no other, once for each time
\* the input holds it; no bucket is empty; a bucket keeps the input order of
\* its transactions; the input list is left as it was.
C18_AggregatePartitionsInput ==
    call.fn = "_aggregate_transactions" =>
        LET groups == result.v
            keys   == {<<u, nm>> : u \in {"1", "2"}, nm \in {Netflix, Att}}
            has(k) == k[1] \in DOMAIN groups /\ k[2] \in DOMAIN groups[k[1]]
            own(k) == SelectSeq(call.transactions, LAMBDA t : t.user_id = k[1] /\ t.name = k[2])
        IN  /\ all_transactions = call.transactions
            /\ \A u \in DOMAIN groups : DOMAIN groups[u] # {}
            /\ \A k \in keys : has(k) <=> own(k) # <<>>
            /\ \A k \in keys : has(k) => groups[k[1]][k[2]] = own(k)

\* three transactions in two buckets, the two of one bucket given in the
\* order February, January
C18_Witness ==
    /\ call.fn = "_aggregate_transactions"
    /\ Len(all_transactions) = 3
    /\ "1" \in DOMAIN result.v /\ "2" \in DOMAIN result.v
    /\ Netflix \in DOMAIN result.v["1"]
    /\ Dates(result.v["1"][Netflix]) = <<isoformat(2025, 2, 1), isoformat(2025, 1, 1)>>

-----------------------------------------------------------------------------
(* The intervals of the merchant history of get_features                   *)

\* dates with and without leading zeros, and a malformed one
UnpaddedDates ==
    {isoformat(2025, 1, 1), isoformat(2025, 2, 1),
     <<"2", "0", "2", "5", "-", "9", "-", "0", "1">>, isoformat(2025, 10, 1), InvalidDate}

InitMerchantIntervals ==
    /\ transaction = Tx("1", Netflix, Cents(1677), isoformat(2025, 1, 1))
    /\ all_transactions \in BSeq({Tx("1", Netflix, Cents(1677), d) : d \in UnpaddedDates}, MaxHistory)
    /\ now = 0
    /\ cache = <<>>
    /\ parse_date_cache = <<>>
    /\ call = NoCall
    /\ result = NoResult
    /\ prev_result = NoResult

\* get_features lines 615-634: the group of the transaction sorted by its date
\* strings, the dates of it that parse, and their intervals
CallMerchantIntervals ==
    /\ call = NoCall
    /\ \E merchant_trans \in {MerchantTrans(transaction, all_transactions)} :
          /\ call' = [fn |-> "_calculate_intervals", dates |-> ParsedDates(merchant_trans)]
          /\ result' = Returned(_calculate_intervals(ParsedDates(merchant_trans)))
          /\ cache' = lru_cache_calls(cache, TxDates(merchant_trans))
    /\ UNCHANGED <<transaction, all_transactions, now, parse_date_cache, prev_result>>

\* the same lines for the same batch, once more
CallMerchantIntervalsAgain ==
    /\ call.fn = "_calculate_intervals"
    /\ call' = [fn |-> "_calculate_intervals again", dates |-> call.dates]
    /\ prev_result' = result
    /\ \E merchant_trans \in {MerchantTrans(transaction, all_transactions)} :
          /\ result' = Returned(_calculate_intervals(ParsedDates(merchant_trans)))
          /\ cache' = lru_cache_calls(cache, TxDates(merchant_trans))
    /\ UNCHANGED <<transaction, all_transactions, now, parse_date_cache>>

NextMerchantIntervals == CallMerchantIntervals \/ CallMerchantIntervalsAgain

SpecMerchantIntervals == InitMerchantIntervals /\ [][NextMerchantIntervals]_vars

\* C19: for the merchant history of get_features (sorted by date string, the
\* dates that do not parse dropped) _calculate_intervals returns no gap for
\* fewer than 2 dates and n - 1 gaps for n dates, each the day difference of
\* two adjacent dates and none below 0.
C19_IntervalsAreNonNegativeGaps ==
    call.fn = "_calculate_intervals" =>
        /\ result.exc = "none"
        /\ Len(result.v) = (IF Len(call.dates) < 2 THEN 0 ELSE Len(call.dates) - 1)
        /\ \A i \in 1..Len(result.v) :
              /\ result.v[i] = Ordinal(call.dates[i + 1]) - Ordinal(call.dates[i])
              /\ result.v[i] >= 0

-----------------------------------------------------------------------------
(* The three irregularity scores, called one at a time                     *)

\* a history with a negative amount, a repeated amount and a malformed date
IrregularTxs ==
    {Tx("1", Netflix, Cents(1677), isoformat(2025, 1, 1)),
     Tx("1", Netflix, Cents(-500), isoformat(2025, 1, 15)),
     Tx("1", Netflix, Cents(2000), isoformat(2025, 3, 1)),
     Tx("1", Netflix, Cents(1677), InvalidDate)}

\* np.std is never below 0; a mean can be
IrregularIntervalStats == [mean : {QInt(-7), QZero, QInt(7), QInt(100)}, std : {QZero, QInt(5), QInt(200)}]

IrregularAmountStats == [mean : {QInt(-10), QZero, Cents(1677)}, std : {QZero, QInt(20)}]

InitIrregularity ==
    /\ transaction = Tx("1", Netflix, Cents(1677), isoformat(2025, 1, 1))
    /\ all_transactions \in BSeq(IrregularTxs, MaxHistory)
    /\ now = 0
    /\ cache = <<>>
    /\ parse_date_cache = <<>>
    /\ call = NoCall
    /\ result = NoResult
    /\ prev_result = NoResult

CallNonRecurringIrregularityScore ==
    /\ call = NoCall
    /\ \E interval_stats \in IrregularIntervalStats, amount_stats \in IrregularAmountStats :
          /\ call' = [fn |-> "non_recurring_irregularity_score",
                      interval_stats |-> interval_stats, amount_stats |-> amount_stats]
          /\ result' = Returned(non_recurring_irregularity_score(all_transactions, interval_stats,
                                                                 amount_stats))
    /\ UNCHANGED <<transaction, all_transactions, now, cache, parse_date_cache, prev_result>>

CallTransactionPatternComplexity ==
    /\ call = NoCall
    /\ \E interval_stats \in IrregularIntervalStats :
          /\ call' = [fn |-> "transaction_pattern_complexity", interval_stats |-> interval_stats]
          /\ result' = Returned(transaction_pattern_complexity(all_transactions, interval_stats))
    /\ cache' = lru_cache_calls(cache, TxDates(all_transactions))
    /\ UNCHANGED <<transaction, all_transactions, now, parse_date_cache, prev_result>>

CallDateIrregularityDominance ==
    /\ call = NoCall
    /\ \E interval_stats \in IrregularIntervalStats, amount_stats \in IrregularAmountStats :
          /\ call' = [fn |-> "date_irregularity_dominance",
                      interval_stats |-> interval_stats, amount_stats |-> amount_stats]
          /\ result' = Returned(date_irregularity_dominance(all_transactions, interval_stats,
                                                            amount_stats))
    /\ cache' = lru_cache_calls(cache, TxDates(all_transactions))
    /\ UNCHANGED <<transaction, all_transactions, now, parse_date_cache, prev_result>>

NextIrregularity ==
    \/ CallNonRecurringIrregularityScore
    \/ CallTransactionPatternComplexity
    \/ CallDateIrregularityDominance

SpecIrregularity == InitIrregularity /\ [][NextIrregularity]_vars

\* C20: non_recurring_irregularity_score, transaction_pattern_complexity and
\* date_irregularity_dominance return a value from 0 to 1 for every history
\* and every pair of stats: the empty history, negative amounts, means of 0
\* and means below 0 included.
C20_IrregularityScoresAreInUnitInterval ==
    call.fn \in {"non_recurring_irregularity_score", "transaction_pattern_complexity",
                 "date_irregularity_dominance"} =>
        /\ result.exc = "none"
        /\ QLe(QZero, result.v)
        /\ QLe(result.v, QOne)

\* a history with a negative amount scored under an interval mean below 0, a
\* large std and an amount mean of 0: the score is 0.3 * (1 - 2 / 5)
C20_Witness ==
    /\ call.fn = "non_recurring_irregularity_score"
    /\ Len(all_transactions) = 2
    /\ \E i \in 1..Len(all_transactions) : QLt(all_transactions[i].amount, QZero)
    /\ QLt(call.interval_stats.mean, QZero)
    /\ call.interval_stats.std = QInt(200)
    /\ IsZero(call.amount_stats.mean)
    /\ QLe(result.v, Q(18, 100)) /\ QLe(Q(18, 100), result.v)

-----------------------------------------------------------------------------
(* The two memoized date parsers, with the values their caches hold         *)

\* a cache that, when full, drops its newest link instead of its oldest
lru_cache_wrapper_drops_newest(entries, key, outcome) ==
    IF key \in entries.keys
    THEN LET i == CHOOSE j \in 1..Len(entries.links) : entries.links[j].key = key
         IN  [entries |-> [keys |-> entries.keys,
                           links |-> SubSeq(entries.links, 1, i - 1)
                                         \o SubSeq(entries.links, i + 1, Len(entries.links))
                                         \o <<entries.links[i]>>],
              outcome |-> Returned(entries.links[i].value)]
    ELSE IF outcome.exc # "none" THEN [entries |-> entries, outcome |-> outcome]
    ELSE IF Len(entries.links) >= maxsize
    THEN [entries |-> [keys |-> (entries.keys \ {entries.links[Len(entries.links)].key}) \cup {key},
                       links |-> SubSeq(entries.links, 1, Len(entries.links) - 1)
                                     \o <<[key |-> key, value |-> outcome.v]>>],
          outcome |-> outcome]
    ELSE [entries |-> [keys |-> entries.keys \cup {key},
                       links |-> entries.links \o <<[key |-> key, value |-> outcome.v]>>],
          outcome |-> outcome]

\* a cache that also stores a link when the wrapped function raises
lru_cache_wrapper_stores_failures(entries, key, outcome) ==
    IF key \in entries.keys
    THEN LET i == CHOOSE j \in 1..Len(entries.links) : entries.links[j].key = key
         IN  [entries |-> [keys |-> entries.keys,
                           links |-> SubSeq(entries.links, 1, i - 1)
                                         \o SubSeq(entries.links, i + 1, Len(entries.links))
                                         \o <<entries.links[i]>>],
              outcome |-> Returned(entries.links[i].value)]
    ELSE IF Len(entries.links) >= maxsize
    THEN [entries |-> [keys |-> (entries.keys \ {Head(entries.links).key}) \cup {key},
                       links |-> Tail(entries.links) \o <<[key |-> key, value |-> outcome.v]>>],
          outcome |-> outcome]
    ELSE [entries |-> [keys |-> entries.keys \cup {key},
                       links |-> entries.links \o <<[key |-> key, value |-> outcome.v]>>],
          outcome |-> outcome]

\* functools.lru_cache around a function of one str, as functools builds it:
\* a dict from the keys to their links and the list of the links, here
\* [keys, links] with the links (key, value) in the order of their last use,
\* the least recently used first; outcome is what the wrapped function does
\* for key. A hit returns the stored value and makes the link the most
\* recent; a miss calls the function, stores nothing when it raises, and
\* drops the oldest link when the cache is full.
lru_cache_wrapper(entries, key, outcome) ==
    IF key \in entries.keys
    THEN LET i == CHOOSE j \in 1..Len(entries.links) : entries.links[j].key = key
         IN  [entries |-> [keys |-> entries.keys,
                           links |-> SubSeq(entries.links, 1, i - 1)
                                         \o SubSeq(entries.links, i + 1, Len(entries.links))
                                         \o <<entries.links[i]>>],
              outcome |-> Returned(entries.links[i].value)]
    ELSE IF outcome.exc # "none" THEN [entries |-> entries, outcome |-> outcome]
    ELSE IF Len(entries.links) >= maxsize
    THEN [entries |-> [keys |-> (entries.keys \ {Head(entries.links).key}) \cup {key},
                       links |-> Tail(entries.links) \o <<[key |-> key, value |-> outcome.v]>>],
          outcome |-> outcome]
    ELSE [entries |-> [keys |-> entries.keys \cup {key},
                       links |-> entries.links \o <<[key |-> key, value |-> outcome.v]>>],
          outcome |-> outcome]

\* the cache of a fresh process
EmptyCache == [keys |-> {}, links |-> <<>>]

\* what the function under the cache of parser does for date_string
UncachedParse(parser, date_string) ==
    IF parser = "features._parse_date" THEN Returned(_parse_date(date_string))
    ELSE parse_date(date_string)

RECURSIVE ParseAll(_, _, _, _, _)
\* the cache after the calls parser(keys[lo]), ..., parser(keys[hi]) of a
\* loop over a history, lo <= hi: first those up to the middle, then the rest
ParseAll(parser, entries, keys, lo, hi) ==
    IF lo = hi
    THEN The({lru_cache_wrapper(entries, keys[lo], outcome).entries :
                 outcome \in {UncachedParse(parser, keys[lo])}})
    ELSE The({ParseAll(parser, half, keys, (lo + hi) \div 2 + 1, hi) :
                 half \in {ParseAll(parser, entries, keys, lo, (lo + hi) \div 2)}})

Parsers == {"features._parse_date", "utils.parse_date"}

\* a date of the test suites and a malformed one
ParseStrings == {isoformat(2024, 1, 1), InvalidDate}

\* a history is parsed in loops of BatchSize dates
BatchSize == maxsize \div 2

\* the loops of one behaviour: one more than fill a cache
MaxBatches == maxsize \div BatchSize + 1

MaxSingles == 2     \* calls with one string of ParseStrings in one behaviour

\* the dates of loop number b: BatchSize first days of January, of years that
\* no other loop uses and that are not in ParseStrings
BatchDates(b) == [i \in 1..BatchSize |-> isoformat(3000 + (b - 1) * BatchSize + i, 1, 1)]

Singles == IF call = NoCall THEN 0 ELSE call.singles

Batches == IF call = NoCall THEN 0 ELSE call.batches

InitParsers ==
    /\ transaction = Tx("1", Netflix, Cents(1677), isoformat(2024, 1, 1))
    /\ all_transactions = <<>>
    /\ now = 0
    /\ cache = EmptyCache
    /\ parse_date_cache = EmptyCache
    /\ call = NoCall
    /\ result = NoResult
    /\ prev_result = NoResult

\* _parse_date(date_string) through its lru_cache
CallCachedParseDate ==
    /\ Singles < MaxSingles
    /\ \E date_string \in ParseStrings :
          \E step \in {lru_cache_wrapper(cache, date_string,
                                         UncachedParse("features._parse_date", date_string))} :
              /\ call' = [fn |-> "features._parse_date", date_string |-> date_string,
                          singles |-> Singles + 1, batches |-> Batches]
              /\ cache' = step.entries
              /\ result' = step.outcome
    /\ UNCHANGED <<transaction, all_transactions, now, parse_date_cache, prev_result>>

\* utils.parse_date(date_str) through its lru_cache
CallCachedUtilsParseDate ==
    /\ Singles < MaxSingles
    /\ \E date_str \in ParseStrings :
          \E step \in {lru_cache_wrapper(parse_date_cache, date_str,
                                         UncachedParse("utils.parse_date", date_str))} :
              /\ call' = [fn |-> "utils.parse_date", date_string |-> date_str,
                          singles |-> Singles + 1, batches |-> Batches]
              /\ parse_date_cache' = step.entries
              /\ result' = step.outcome
    /\ UNCHANGED <<transaction, all_transactions, now, cache, prev_result>>

\* [_parse_date(t.date) for t in merchant_trans] over the next BatchSize dates
CallParseDateLoop ==
    /\ Batches < MaxBatches
    /\ call' = [fn |-> "loop of features._parse_date", date_string |-> <<>>,
                singles |-> Singles, batches |-> Batches + 1]
    /\ \E keys \in {BatchDates(Batches + 1)} :
          cache' = ParseAll("features._parse_date", cache, keys, 1, Len(keys))
    /\ UNCHANGED <<transaction, all_transactions, now, parse_date_cache, result, prev_result>>

\* (parse_date(t.date) for t in merchant_trans) over the next BatchSize dates
CallUtilsParseDateLoop ==
    /\ Batches < MaxBatches
    /\ call' = [fn |-> "loop of utils.parse_date", date_string |-> <<>>,
                singles |-> Singles, batches |-> Batches + 1]
    /\ \E keys \in {BatchDates(Batches + 1)} :
          parse_date_cache' = ParseAll("utils.parse_date", parse_date_cache, keys, 1, Len(keys))
    /\ UNCHANGED <<transaction, all_transactions, now, cache, result, prev_result>>

NextParsers ==
    \/ CallCachedParseDate
    \/ CallCachedUtilsParseDate
    \/ CallParseDateLoop
    \/ CallUtilsParseDateLoop

SpecParsers == InitParsers /\ [][NextParsers]_vars

\* the keys of the links that hold a parsed date
StoredDates(entries) ==
    {entries.links[i].key : i \in {j \in 1..Len(entries.links) : entries.links[j].value # None}}

\* C21, as the spec words it: the date-parse cache is append-only: a date
\* string that was parsed and stored is never removed by later parse calls,
\* however many distinct strings they bring.
C21_CacheIsAppendOnly ==
    [][/\ StoredDates(cache) \subseteq StoredDates(cache')
       /\ StoredDates(parse_date_cache) \subseteq StoredDates(parse_date_cache')]_vars

\* one step of a cache (a call, or a loop of calls with new strings): what it
\* drops are its least recently used links, as many as the new links exceed
\* maxsize, and every other link stays as it was
DropsOnlyOldest(entries, after) ==
    LET dropped == entries.keys \ after.keys
        n       == Cardinality(dropped)
    IN  /\ dropped = {entries.links[i].key : i \in 1..n}
        /\ n = Max(0, Len(entries.links) + Cardinality(after.keys \ entries.keys) - maxsize)
        /\ {entries.links[i] : i \in (n + 1)..Len(entries.links)}
               \subseteq {after.links[j] : j \in 1..Len(after.links)}

\* C21, amended: the date-parse caches are bounded LRU caches: they never hold
\* more than maxsize entries, a stored date string stays stored as long as the
\* cache is not full, and a full cache that stores a new string drops its
\* least recently used entry and no other.
C21_CacheDropsOnlyItsOldestWhenFull ==
    [][/\ DropsOnlyOldest(cache, cache')
       /\ DropsOnlyOldest(parse_date_cache, parse_date_cache')
       /\ Len(cache'.links) <= maxsize
       /\ Len(parse_date_cache'.links) <= maxsize]_vars

\* after the loops over more than maxsize dates the cache of _parse_date is
\* full and the first date of the first loop is no longer in it
C21_Witness ==
    /\ call # NoCall
    /\ call.batches = MaxBatches
    /\ Len(cache.links) = maxsize
    /\ BatchDates(1)[1] \notin cache.keys
    /\ BatchDates(MaxBatches)[1] \in cache.keys

\* the link of key, for a key of the cache
LinkOf(entries, key) ==
    entries.links[CHOOSE i \in 1..Len(entries.links) : entries.links[i].key = key]

\* the strings whose links are compared with an uncached parse: those of the
\* single calls, and the first and the last date of every loop
ProbedStrings ==
    ParseStrings \cup {BatchDates(b)[1] : b \in 1..MaxBatches}
                 \cup {BatchDates(b)[BatchSize] : b \in 1..MaxBatches}

\* C26: after any sequence of calls of the memoized parsers, evictions
\* included, a call with a string returns what an uncached parse of that
\* string returns: the date, None from features._parse_date or the ValueError
\* of utils.parse_date; every link holds the value of its own key, and a
\* string utils.parse_date fails on has no link.
C26_CachedParseIsUncachedParse ==
    /\ call.fn \in Parsers => result = UncachedParse(call.fn, call.date_string)
    /\ \A s \in ProbedStrings \cap cache.keys :
          LinkOf(cache, s).value = _parse_date(s)
    /\ \A s \in ProbedStrings \cap parse_date_cache.keys :
          /\ parse_date(s).exc = "none"
          /\ LinkOf(parse_date_cache, s).value = parse_date(s).v

\* utils.parse_date called with a date once its cache is full and has dropped
\* the first date of the first loop
C26_Witness ==
    /\ call.fn = "utils.parse_date"
    /\ call.date_string = isoformat(2024, 1, 1)
    /\ call.batches = MaxBatches
    /\ Len(parse_date_cache.links) = maxsize
    /\ BatchDates(1)[1] \notin parse_date_cache.keys
    /\ result = Returned(<<2024, 1, 1>>)

-----------------------------------------------------------------------------
(* The two interval-consistency scores on the same day-gaps                *)

\* gaps at, near and far from the trusted targets
GapValues == {0, 7, 9, 20, 30, 31, 36, 100}

GapTolerances == {0, 1, 5}

InitConsistency ==
    /\ transaction = Tx("user1", Name1, Cents(1000), isoformat(2023, 1, 1))
    /\ all_transactions = <<>>
    /\ now = 0
    /\ cache = <<>>
    /\ parse_date_cache = <<>>
    /\ call = NoCall
    /\ result = NoResult
    /\ prev_result = NoResult

\* the graded score of features_original for a list of day-gaps
CallGradedIntervalConsistency ==
    /\ call = NoCall
    /\ \E intervals \in BSeq(GapValues, MaxHistory), tolerance_days \in GapTolerances :
          /\ call' = [fn |-> "features_original.get_interval_consistency_score",
                      intervals |-> intervals, tolerance_days |-> tolerance_days]
          /\ result' = Returned(interval_consistency_of(intervals, tolerance_days))
    /\ UNCHANGED <<transaction, all_transactions, now, cache, parse_date_cache, prev_result>>

\* the boolean score of features_laurels for the same day-gaps
CallBooleanIntervalConsistency ==
    /\ call.fn = "features_original.get_interval_consistency_score"
    /\ call' = [fn |-> "features_laurels.get_interval_consistency_score",
                intervals |-> call.intervals, tolerance_days |-> call.tolerance_days]
    /\ prev_result' = result
    /\ result' = Returned(laurels_interval_consistency_of(call.intervals, call.tolerance_days))
    /\ UNCHANGED <<transaction, all_transactions, now, cache, parse_date_cache>>

NextConsistency == CallGradedIntervalConsistency \/ CallBooleanIntervalConsistency

SpecConsistency == InitConsistency /\ [][NextConsistency]_vars

\* C23: on the same day-gaps and the same tolerance the boolean score of
\* features_laurels is 1 exactly when the graded score of features_original
\* is 1.0, and 0 in every other case.
C23_BooleanIsGradedEqualOne ==
    call.fn = "features_laurels.get_interval_consistency_score" =>
        /\ result.v \in {0, 1}
        /\ result.v = 1 <=> (QLe(prev_result.v, QOne) /\ QLe(QOne, prev_result.v))

\* the gaps 30, 31, 100 with tolerance 5: the graded score is 2/3, the
\* boolean one 0
C23_Witness ==
    /\ call.fn = "features_laurels.get_interval_consistency_score"
    /\ call.intervals = <<30, 31, 100>>
    /\ call.tolerance_days = 5
    /\ prev_result.v = Q(2, 3)
    /\ result.v = 0

-----------------------------------------------------------------------------
(* get_features and get_new_features on two orders of the same list        *)

\* merchant transactions that share a date: 0.99 is within 1% of 1.00, 1.00
\* is not within 1% of 0.99
OrderTxs ==
    {Tx("1", Netflix, Cents(100), isoformat(2025, 1, 1)),
     Tx("1", Netflix, Cents(99), isoformat(2025, 1, 1)),
     Tx("1", Netflix, Cents(500), isoformat(2025, 1, 1))}

\* the longest reordered list: one more than rolling_amount_mean looks at
MaxOrderLen == MaxTx + 2

\* the orders of the list txs
OrdersOf(txs) ==
    {[i \in 1..Len(txs) |-> txs[p[i]]] :
        p \in {q \in [1..Len(txs) -> 1..Len(txs)] : \A i, j \in 1..Len(txs) : q[i] = q[j] => i = j}}

InitOrder ==
    /\ transaction = Tx("1", Netflix, Cents(100), isoformat(2025, 1, 1))
    /\ all_transactions \in BSeq(OrderTxs, MaxOrderLen)
    /\ now = 0
    /\ cache = <<>>
    /\ parse_date_cache = <<>>
    /\ call = NoCall
    /\ result = NoResult
    /\ prev_result = NoResult

\* get_features(transaction, all_transactions)
CallGetFeatures ==
    /\ call = NoCall
    /\ call' = [fn |-> "get_features", all_transactions |-> all_transactions]
    /\ result' = get_features(transaction, all_transactions, now)
    /\ UNCHANGED <<transaction, all_transactions, now, cache, parse_date_cache, prev_result>>

\* get_features(transaction, reordered) for another order of the same list
CallGetFeaturesReordered ==
    /\ call.fn = "get_features"
    /\ \E reordered \in OrdersOf(all_transactions) :
          /\ call' = [fn |-> "get_features again", all_transactions |-> reordered]
          /\ result' = get_features(transaction, reordered, now)
    /\ prev_result' = result
    /\ UNCHANGED <<transaction, all_transactions, now, cache, parse_date_cache>>

\* features_original.get_new_features(transaction, all_transactions)
CallGetNewFeatures ==
    /\ call = NoCall
    /\ call' = [fn |-> "get_new_features", all_transactions |-> all_transactions]
    /\ result' = get_new_features(transaction, all_transactions)
    /\ UNCHANGED <<transaction, all_transactions, now, cache, parse_date_cache, prev_result>>

\* get_new_features(transaction, reordered) for another order of the same list
CallGetNewFeaturesReordered ==
    /\ call.fn = "get_new_features"
    /\ \E reordered \in OrdersOf(all_transactions) :
          /\ call' = [fn |-> "get_new_features again", all_transactions |-> reordered]
          /\ result' = get_new_features(transaction, reordered)
    /\ prev_result' = result
    /\ UNCHANGED <<transaction, all_transactions, now, cache, parse_date_cache>>

NextOrder ==
    \/ CallGetFeatures
    \/ CallGetFeaturesReordered
    \/ CallGetNewFeatures
    \/ CallGetNewFeaturesReordered

SpecOrder == InitOrder /\ [][NextOrder]_vars

\* C28: get_features and get_new_features return the same mapping for every
\* order of all_transactions, lists where several merchant transactions share
\* a date included.
C28_ResultIsIndependentOfOrder ==
    call.fn \in {"get_features again", "get_new_features again"} => result = prev_result

\* the part of C28 that does hold: every feature but rolling_amount_mean and
\* same_amount_count is the same for every order of these lists
C28_OtherFeaturesAreIndependentOfOrder ==
    call.fn \in {"get_features again", "get_new_features again"} =>
        /\ result.exc = prev_result.exc
        /\ result.exc = "none" =>
              \A k \in DOMAIN result.v \ {"rolling_amount_mean", "same_amount_count"} :
                  result.v[k] = prev_result.v[k]

-----------------------------------------------------------------------------
(* features_laurels.py: get_new_features and the helpers whose bodies      *)
(* differ from those of features_original.py.  Its functions carry no      *)
(* safe_feature decorator: what a helper raises, get_new_features raises.  *)

\* sorted(transactions, key=lambda t: t.date), then strptime(..., "%Y/%m/%d") of
\* both dates of every adjacent pair: the first that does not match raises
laurels_calc_intervals(transactions) ==
    LET sorted_trans == sort_by_date(transactions)
        parsed == [i \in 1..Len(sorted_trans) |-> strptime(sorted_trans[i].date, "/")]
    IN  IF Len(sorted_trans) < 2 THEN Returned(<<>>)
        ELSE IF \E i \in 1..Len(parsed) : parsed[i].exc # "none" THEN [exc |-> "ValueError", v |-> <<>>]
        ELSE Returned([i \in 1..(Len(parsed) - 1) |-> Abs(DaysBetween(parsed[i + 1].v, parsed[i].v))])

\* features_laurels.get_interval_consistency_score(merchant_trans)
laurels_get_interval_consistency_score(merchant_trans) ==
    LET intervals == laurels_calc_intervals(merchant_trans)
    IN  IF intervals.exc # "none" THEN [exc |-> intervals.exc, v |-> PyNone]
        ELSE Returned(PyInt(laurels_interval_consistency_of(intervals.v, 5)))

\* features_laurels.get_interval_cluster_score(merchant_trans): the body of
\* features_original on the intervals of the helper above
laurels_get_interval_cluster_score(merchant_trans) ==
    The({get_interval_cluster_score_fn(merchant_trans, intervals) :
            intervals \in {laurels_calc_intervals(merchant_trans)}})

\* the keys of the dict literal of features_laurels.get_new_features, in its order
LaurelsFeatureKeys ==
    <<"is_known_recurring_vendor",
      "is_known_non_recurring_vendor",
      "amount_consistency_score",
      "interval_consistency_score",
      "same_amount_count",
      "is_albert_99_recurring",
      "interval_cluster_score">>

\* the outcomes of the values of that dict literal, in the order it evaluates them
laurels_features_dict(t, merchant_trans) ==
    <<get_is_known_recurring_vendor_fn(t),
      get_is_known_non_recurring_vendor_fn(t),
      get_amount_consistency_score_fn(merchant_trans, Q(5, 10), Q(5, 100)),
      laurels_get_interval_consistency_score(merchant_trans),
      get_same_amount_count_fn(merchant_trans),
      get_is_albert_99_recurring_fn(t),
      laurels_get_interval_cluster_score(merchant_trans)>>

\* the exception of the first value that raises, else the dict
LaurelsFeaturesOutcome(entries) ==
    IF FirstRaise(entries) # 0 THEN Raised(entries[FirstRaise(entries)].exc)
    ELSE Returned(Dict(LaurelsFeatureKeys, [i \in 1..Len(entries) |-> entries[i].v]))

\* features_laurels.get_new_features(transaction, all_transactions)
laurels_get_new_features(t, txs) ==
    The({LaurelsFeaturesOutcome(entries) :
            entries \in {laurels_features_dict(t, merchant_trans) : merchant_trans \in {MerchantTrans(t, txs)}}})

\* dates with dashes and with slashes, a month apart
LaurelsDates ==
    {isoformat(2025, 1, 1), isoformat(2025, 2, 1),
     <<"2", "0", "2", "5", "/", "0", "1", "/", "0", "1">>,
     <<"2", "0", "2", "5", "/", "0", "2", "/", "0", "1">>}

InitLaurels ==
    /\ transaction = Tx("1", Netflix, Cents(1677), isoformat(2025, 1, 1))
    /\ all_transactions \in BSeq({Tx("1", Netflix, Cents(1677), d) : d \in LaurelsDates}
                                    \cup {Tx("1", Att, Cents(1677), isoformat(2025, 1, 1))}, MaxHistory)
    /\ now = 0
    /\ cache = <<>>
    /\ parse_date_cache = <<>>
    /\ call = NoCall
    /\ result = NoResult
    /\ prev_result = NoResult

\* features_laurels.get_new_features(transaction, all_transactions)
CallLaurelsGetNewFeatures ==
    /\ call = NoCall
    /\ call' = [fn |-> "features_laurels.get_new_features"]
    /\ result' = laurels_get_new_features(transaction, all_transactions)
    /\ UNCHANGED <<transaction, all_transactions, now, cache, parse_date_cache, prev_result>>

\* features_laurels.get_interval_consistency_score on the merchant history
CallLaurelsIntervalConsistencyScore ==
    /\ call = NoCall
    /\ call' = [fn |-> "features_laurels.get_interval_consistency_score"]
    /\ \E merchant_trans \in {MerchantTrans(transaction, all_transactions)} :
          result' = laurels_get_interval_consistency_score(merchant_trans)
    /\ UNCHANGED <<transaction, all_transactions, now, cache, parse_date_cache, prev_result>>

\* features_laurels.get_interval_cluster_score on the merchant history
CallLaurelsIntervalClusterScore ==
    /\ call = NoCall
    /\ call' = [fn |-> "features_laurels.get_interval_cluster_score"]
    /\ \E merchant_trans \in {MerchantTrans(transaction, all_transactions)} :
          result' = laurels_get_interval_cluster_score(merchant_trans)
    /\ UNCHANGED <<transaction, all_transactions, now, cache, parse_date_cache, prev_result>>

NextLaurels ==
    \/ CallLaurelsGetNewFeatures
    \/ CallLaurelsIntervalConsistencyScore
    \/ CallLaurelsIntervalClusterScore

SpecLaurels == InitLaurels /\ [][NextLaurels]_vars

\* the merchant history holds 2 or more transactions, each with a canonical
\* YYYY-MM-DD date
CanonicalHistory ==
    LET merchant_trans == MerchantTrans(transaction, all_transactions)
    IN  /\ Len(merchant_trans) >= 2
        /\ \A i \in 1..Len(merchant_trans) : fromisoformat(merchant_trans[i].date).exc = "none"

\* C30: for a transaction whose merchant history holds 2 or more transactions
\* with canonical YYYY-MM-DD dates, features_laurels.get_new_features returns
\* its seven features and raises nothing.
C30_ReturnsSevenFeaturesForCanonicalDates ==
    (call.fn = "features_laurels.get_new_features" /\ CanonicalHistory) =>
        /\ result.exc = "none"
        /\ DOMAIN result.v = Range(LaurelsFeatureKeys)

\* what the code does for such a history: the ValueError of strptime
C30_RaisesValueErrorForCanonicalDates ==
    (call.fn = "features_laurels.get_new_features" /\ CanonicalHistory) =>
        result = Raised("ValueError")

=============================================================================
